---- MODULE Spec2Model ----
(***************************************************************************)
(* A model of the MicroPython example scripts for PSoC 6.                  *)
(*                                                                         *)
(*   Part A  02_led_on_signal.py : a digital output pin behind             *)
(*           machine.Signal wrappers with an inversion flag.               *)
(*   Part B  11_timer_interrupt.py : the main sequence of the script, the  *)
(*           timers and the pin interrupt it arms, and their callbacks.    *)
(*   Part C  04_adc_analog_input.py : the conversion of a 16-bit sample    *)
(*           to a voltage in floating point.                               *)
(*   Part D  07_file_operations.py : files written, appended to and read   *)
(*           back.                                                         *)
(*   Part E  the scripts as sequences of statements with their try blocks: *)
(*           peripheral handles, exceptions, keyboard interrupts, and the  *)
(*           UART receive buffer.                                          *)
(*   Part F  05_pwm_led_fade.py : the duty values of the fade loop.        *)
(*   Part G  10_uart_serial.py : the command parser of Example 8.          *)
(***************************************************************************)
EXTENDS Integers, Sequences, FiniteSets, TLC

VARIABLES
    \* ---- Part A: pin and Signal wrappers
    pinLevel,    \* physical level of the LED pin
    sigChain,    \* invert flags of the Signal wrappers around the pin, innermost first
    sigLastOp,   \* the last operation issued on the outermost object
    sigWrites,   \* the levels the Signal chain has driven on the pin, in order
    \* ---- Part B: the main sequence of a script
    prog,        \* the statements of the main sequence, in program order
    pc,          \* index in prog of the next statement of the main sequence
    now,         \* time in ms
    wake,        \* time at which the main sequence's time.sleep ends, -1 when not sleeping
    globals,     \* the module-global counters and flags
    out,         \* what the last print of counters printed
    \* ---- Part B: machine.Timer, Pin.irq and the callbacks in progress
    timers,      \* timer index -> armed, period, mode, callback, next due time
    irq,         \* the button pin's interrupt: enabled, trigger, handler
    btn,         \* level of the button pin
    irqPending,  \* qualifying edges whose handler has not started yet
    running,     \* the callbacks in progress, innermost last
    \* ---- history kept for the properties
    started,     \* source -> callback invocations begun
    completed,   \* source -> callback invocations returned
    lastCall,    \* source -> the last of init / deinit the main sequence issued on it
    edgesSeen,   \* falling / rising edges on the button since the interrupt was enabled
    calls,       \* counter -> returned invocations of its callback since the main
                 \* sequence last assigned the counter
    nEdges,      \* edges on the button pin so far
    cbWake,      \* time at which the sleep of the handler in progress ends, -1 when
                 \* no handler sleeps
    \* ---- Part C: the ADC loop
    adcIn,       \* the sample the converter delivers for the level on the analog pin
    adcPc,       \* the statement of the loop body that runs next
    raw_value,   \* raw_value of the script
    voltage,     \* voltage of the script, a binary floating-point number
    \* ---- Part D: the filesystem and the statements working on it
    files,       \* file name -> whether it exists, and its contents
    fileObj,     \* f of the script, the open file object: name and mode
    fprog,       \* the statements of the script, in program order
    fpc,         \* index in fprog of the next statement
    content,     \* content of the script: what f.read() returned
    shown,       \* the lines the last read-back loop printed, in order
    runs,        \* how often the script has been started
    \* ---- Part E: one script, its exceptions and its peripherals
    xname,       \* the script that runs
    xprog,       \* its statements, in program order
    xpc,         \* index in xprog of the next statement
    xstatus,     \* "running", "ended" (end of script reached), "failed" (uncaught
                 \* exception), "killed" (uncaught KeyboardInterrupt)
    handles,     \* peripheral -> "none", "live", "released", "failed" (constructor raised)
    reports,     \* the lines of the error and no-data messages printed, in order
    ioLog,       \* the bus operations issued, in order, and how each ended
    ledOp,       \* the last operation on the LED pin
    rx,          \* bytes waiting in the UART receive buffer
    data,        \* data / line / char of the script: bytes the last read returned, -1 for None
    iter,        \* rounds done of the counted or timed loop in progress
    cause,       \* the exception raised last: kind and line
    kbdAt,       \* the line a KeyboardInterrupt arrived at, 0 while none has
    arrived,     \* bytes received by the UART so far
    csLevel,     \* level of the chip-select pin of 09_spi_communication.py
    \* ---- Part F: the fade loop of 05_pwm_led_fade.py
    fadeAt,      \* "in" / "out": the for loop that runs; "stopped" after Ctrl+C; "idle"
    dutyIdx,     \* iterations done of the for loop that runs
    duty,        \* the value last passed to duty_u16, -1 before the first
    prevDuty,    \* the value passed before that one, -1 if none
    \* ---- Part G: the command parser of 10_uart_serial.py
    sentLines,   \* the command lines the peer sends, in order
    peer,        \* the characters the peer has not sent yet
    uartRx,      \* the characters received and not read yet
    buffer,      \* buffer of the script
    responses,   \* the responses written with uart.write, in order
    consumed,    \* the characters read so far
    parserOn     \* the loop of lines 155-166 is running

sigVars == <<sigChain, sigLastOp, sigWrites>>
mainVars == <<prog, pc, wake, globals, out>>
hwVars == <<timers, irq, btn, irqPending, running>>
histVars == <<started, completed, lastCall, edgesSeen, calls, nEdges>>

adcVars == <<adcIn, adcPc, raw_value, voltage>>
fileVars == <<files, fileObj, fprog, fpc, content, shown, runs>>
exVars == <<xname, xprog, xpc, xstatus, handles, reports, ioLog, ledOp, rx, data, iter, cause,
            kbdAt, arrived>>
fadeVars == <<fadeAt, dutyIdx, duty, prevDuty>>
parserVars == <<sentLines, peer, uartRx, buffer, responses, consumed, parserOn>>
lateVars == <<cbWake, csLevel, fadeVars, parserVars>>
extVars == <<adcVars, fileVars, exVars, lateVars>>

vars == <<pinLevel, sigVars, mainVars, now, hwVars, histVars, extVars>>

(***************************************************************************)
(* Bounds of the model.                                                    *)
(***************************************************************************)
MaxWrap == 3
MaxSigOps == 3
MaxEdges == 3
MaxPeriod == 4
MaxRun == 9
MaxLoop == 2
MaxCmds == 2

(***************************************************************************)
(* Part A.  Logic levels and machine.Signal.                               *)
(***************************************************************************)
LOW == 0
HIGH == 1
Levels == {LOW, HIGH}

\* An inversion that yields LOW for either level.
InvertStuckLow(x) == LOW

\* Polarity inversion of a logic level.
Invert(x) == IF x = HIGH THEN LOW ELSE HIGH

\* An inverting Signal that drives LOW whatever is requested.
SignalLevelStuckLow(requested, invert) == IF invert THEN LOW ELSE requested

\* The level one Signal wrapper hands to the object it wraps:
\* requested XOR invert.
SignalLevel(requested, invert) == IF invert THEN Invert(requested) ELSE requested

\* The level that reaches the pin when `requested` is asked of the outermost
\* wrapper of `chain` (chain[Len(chain)] is the outermost wrapper).
RECURSIVE ChainLevel(_, _)
ChainLevel(requested, chain) ==
    IF chain = <<>> THEN requested
    ELSE ChainLevel(SignalLevel(requested, chain[Len(chain)]),
                    SubSeq(chain, 1, Len(chain) - 1))

(***************************************************************************)
(* Part B.  11_timer_interrupt.py: the statements of the script.           *)
(*                                                                         *)
(* A statement of the main sequence is a record; `line` is its line in     *)
(* the script.  The examples are sequences of statements, written once     *)
(* with their periods and durations as parameters and instantiated by      *)
(* the script with the values it uses.                                     *)
(***************************************************************************)
PERIODIC == "PERIODIC"
ONE_SHOT == "ONE_SHOT"

\* Pin.IRQ_FALLING, Pin.IRQ_RISING; a trigger is a set of edges and
\* IRQ_FALLING | IRQ_RISING is their union.
IRQ_FALLING == {"falling"}
IRQ_RISING == {"rising"}

TimerIds == {0, 1, 2}
Sources == {"timer0", "timer1", "timer2", "irq"}
TimerSource(i) == CASE i = 0 -> "timer0" [] i = 1 -> "timer1" [] OTHER -> "timer2"

SLedOff(line) == [op |-> "led_off", line |-> line]
SAssign(line, name, val) == [op |-> "assign", line |-> line, name |-> name, val |-> val]
SInit(line, i, period, mode, cb) ==
    [op |-> "init", line |-> line, timer |-> i, period |-> period, mode |-> mode, cb |-> cb]
SDeinit(line, i) == [op |-> "deinit", line |-> line, timer |-> i]
SSleep(line, ms) == [op |-> "sleep", line |-> line, ms |-> ms]
SPrint(line, names) == [op |-> "print", line |-> line, names |-> names]
SPrintIf(line, flag) == [op |-> "print_if", line |-> line, flag |-> flag]
SIrq(line, trigger, handler) ==
    [op |-> "irq", line |-> line, trigger |-> trigger, handler |-> handler]
SIrqOff(line) == [op |-> "irq_off", line |-> line]

\* The periods and durations the script uses, in ms.
Period1 == 500
Run1 == 5000
Period2 == 2000
Run2 == 3000
FastPeriod == 200
SlowPeriod == 1000
Run3 == 5000
Run4 == 10000
Run5 == 10000
BlinkPeriod == 200
LoopSleep6 == 500
LoopCount6 == 10
WatchdogPeriod == 5000
WorkSleep7 == 1000
WorkCount7 == 3
HangPeriod == 2000
Run7 == 3000

\* n copies of the statements of a loop body, one per iteration.
RECURSIVE Repeat(_, _)
Repeat(n, body) == IF n = 0 THEN <<>> ELSE body \o Repeat(n - 1, body)

\* Lines 28-33: the LED and the counters.
Prologue ==
    << SLedOff(29), SAssign(32, "tick_count", 0), SAssign(33, "button_press_count", 0) >>

\* Example 1, lines 48-59: a PERIODIC timer of period T left to run for D.
Example1(T, D) ==
    << SInit(50, 0, T, PERIODIC, "timer_callback"),
       SSleep(53, D),
       SDeinit(56, 0),
       SPrint(57, <<"tick_count">>),
       SLedOff(58),
       SAssign(59, "tick_count", 0) >>

\* Example 2, lines 72-79: a ONE_SHOT timer of period P, then a wait of D.
Example2(P, D) ==
    << SLedOff(72),
       SInit(74, 1, P, ONE_SHOT, "one_shot_callback"),
       SSleep(77, D),
       SLedOff(78),
       SDeinit(79, 1) >>

\* Example 3, lines 86-116: two PERIODIC timers side by side.
Example3(Tf, Ts, D) ==
    << SAssign(86, "fast_count", 0),
       SAssign(87, "slow_count", 0),
       SInit(106, 0, Tf, PERIODIC, "fast_timer_callback"),
       SInit(107, 1, Ts, PERIODIC, "slow_timer_callback"),
       SSleep(110, D),
       SDeinit(113, 0),
       SDeinit(114, 1),
       SLedOff(115),
       SPrint(116, <<"fast_count", "slow_count">>) >>

\* Example 4, lines 132-143: an interrupt on the button with one trigger.
Example4(trigger, D) ==
    << SIrq(135, trigger, "button_callback"),
       SSleep(138, D),
       SIrqOff(141),
       SPrint(142, <<"button_press_count">>),
       SLedOff(143) >>

\* Example 5, lines 151-178: both edges, dispatched by the lambda.
Example5(D) ==
    << SAssign(151, "press_count", 0),
       SAssign(152, "release_count", 0),
       SIrq(170, IRQ_FALLING \cup IRQ_RISING, "lambda"),
       SSleep(175, D),
       SIrqOff(177),
       SPrint(178, <<"press_count", "release_count">>) >>

\* Example 6, lines 191-203: a loop in the main sequence beside a blink timer.
Example6(T, n, D) ==
    << SInit(192, 0, T, PERIODIC, "blink_callback") >>
    \o Repeat(n, << SSleep(199, D) >>)
    \o << SDeinit(202, 0), SLedOff(203) >>

\* Example 7, lines 211-243: a ONE_SHOT timer fed by deinit + init.
Example7(W, n, D, H, R) ==
    << SAssign(211, "timeout_occurred", FALSE),
       SInit(221, 2, W, ONE_SHOT, "timeout_callback") >>
    \o Repeat(n, << SSleep(227, D),
                    SDeinit(229, 2),
                    SInit(230, 2, W, ONE_SHOT, "timeout_callback") >>)
    \o << SDeinit(233, 2),
          SInit(237, 2, H, ONE_SHOT, "timeout_callback"),
          SSleep(238, R),
          SPrintIf(240, "timeout_occurred"),
          SDeinit(243, 2),
          SLedOff(247) >>

\* The script, top to bottom.
Script11 ==
    Prologue
    \o Example1(Period1, Run1)
    \o Example2(Period2, Run2)
    \o Example3(FastPeriod, SlowPeriod, Run3)
    \o Example4(IRQ_FALLING, Run4)
    \o Example5(Run5)
    \o Example6(BlinkPeriod, LoopCount6, LoopSleep6)
    \o Example7(WatchdogPeriod, WorkCount7, WorkSleep7, HangPeriod, Run7)

(***************************************************************************)
(* The callbacks.  A callback is the sequence of its statements;           *)
(* `x += 1` is a load of x followed by a store of the loaded value + 1.    *)
(***************************************************************************)
CToggle == [op |-> "toggle"]
CLedOn == [op |-> "led_on"]
CLedOff == [op |-> "led_off"]
CLoad(name) == [op |-> "load", name |-> name]
CStoreInc(name) == [op |-> "store_inc", name |-> name]
CSet(name, val) == [op |-> "set", name |-> name, val |-> val]
CPrint(line, names) == [op |-> "print", line |-> line, names |-> names]
CPinValue == [op |-> "pin_value"]
CBranch(ifLow, ifHigh) == [op |-> "branch", ifLow |-> ifLow, ifHigh |-> ifHigh]
CIrqOff == [op |-> "irq_off"]
CIrqOn(trigger, handler) == [op |-> "irq_on", trigger |-> trigger, handler |-> handler]
CSleepMs(ms) == [op |-> "sleep_ms", ms |-> ms]

\* The statements of a handler that act on the interrupt or on time.
HandlerOps == {"irq_off", "irq_on", "sleep_ms"}

\* A timer_callback that toggles the LED and forgets the count.
timer_callback_no_count == << CToggle, CPrint(46, <<"tick_count">>) >>

\* lines 41-46
timer_callback ==
    << CToggle, CLoad("tick_count"), CStoreInc("tick_count"), CPrint(46, <<"tick_count">>) >>

\* lines 67-70
one_shot_callback == << CLedOn, CPrint(70, <<>>) >>

\* A fast_timer_callback that counts in slow_count.
fast_timer_callback_counts_slow ==
    << CLoad("slow_count"), CStoreInc("slow_count"), CPrint(93, <<"fast_count">>) >>

\* lines 89-93
fast_timer_callback ==
    << CLoad("fast_count"), CStoreInc("fast_count"), CPrint(93, <<"fast_count">>) >>

\* A slow_timer_callback that counts on from fast_count.
slow_timer_callback_from_fast ==
    << CLoad("fast_count"), CStoreInc("slow_count"), CToggle, CPrint(100, <<"slow_count">>) >>

\* lines 95-100
slow_timer_callback ==
    << CLoad("slow_count"), CStoreInc("slow_count"), CToggle, CPrint(100, <<"slow_count">>) >>

\* lines 124-129
button_callback ==
    << CLoad("button_press_count"), CStoreInc("button_press_count"), CToggle,
       CPrint(129, <<"button_press_count">>) >>

\* lines 154-159
button_press_callback ==
    << CLoad("press_count"), CStoreInc("press_count"), CLedOn, CPrint(159, <<"press_count">>) >>

\* lines 161-166
button_release_callback ==
    << CLoad("release_count"), CStoreInc("release_count"), CLedOff,
       CPrint(166, <<"release_count">>) >>

\* lines 171-172: the lambda reads the pin and calls one of the two.
lambda == << CPinValue, CBranch("button_press_callback", "button_release_callback") >>

\* A blink_callback that toggles the LED and never returns.
blink_callback_spins == << CToggle, CPinValue, CBranch("blink_callback", "blink_callback") >>

\* lines 186-188
blink_callback == << CToggle >>

\* A timeout_callback that prints and leaves the flag alone.
timeout_callback_no_flag == << CPrint(217, <<>>) >>

\* lines 213-217
timeout_callback == << CSet("timeout_occurred", TRUE), CPrint(217, <<>>) >>

\* line 301: the debounce time, in ms.
DebounceMs == 200

\* A handler that toggles the LED and enables the interrupt again at once.
debounced_button_handler_no_wait ==
    << CToggle, CPrint(297, <<>>), CIrqOn(IRQ_FALLING, "debounced_button_handler") >>

\* lines 291-302
debounced_button_handler ==
    << CIrqOff, CToggle, CPrint(297, <<>>), CSleepMs(DebounceMs),
       CIrqOn(IRQ_FALLING, "debounced_button_handler") >>

Body(cb) ==
    CASE cb = "timer_callback" -> timer_callback
      [] cb = "one_shot_callback" -> one_shot_callback
      [] cb = "fast_timer_callback" -> fast_timer_callback
      [] cb = "slow_timer_callback" -> slow_timer_callback
      [] cb = "button_callback" -> button_callback
      [] cb = "button_press_callback" -> button_press_callback
      [] cb = "button_release_callback" -> button_release_callback
      [] cb = "lambda" -> lambda
      [] cb = "blink_callback" -> blink_callback
      [] cb = "timeout_callback" -> timeout_callback
      [] cb = "debounced_button_handler" -> debounced_button_handler

(***************************************************************************)
(* machine.Timer and Pin.irq.                                              *)
(***************************************************************************)
StoppedTimer == [armed |-> FALSE, period |-> 0, mode |-> "none", cb |-> "none", due |-> 0]

\* timer.init(period, mode, callback) at time t: the first firing is one
\* period later.
ArmedTimer(period, mode, cb, t) ==
    [armed |-> TRUE, period |-> period, mode |-> mode, cb |-> cb, due |-> t + period]

\* A deinit that leaves the timer as it was.
TimerAfterDeinitNoStop(t) == t

\* timer.deinit(): stop and disable the timer.
TimerAfterDeinit(t) == StoppedTimer

\* A timer that stays armed after a firing whatever its mode.
TimerAfterFireAlwaysRearm(t) == [t EXCEPT !.due = t.due + t.period]

\* A timer that is stopped by a firing whatever its mode.
TimerAfterFireAlwaysStops(t) == StoppedTimer

\* A timer whose next period starts one ms late after each firing.
TimerAfterFireLate(t) ==
    IF t.mode = PERIODIC THEN [t EXCEPT !.due = t.due + t.period + 1] ELSE StoppedTimer

\* The timer after a firing: PERIODIC is due again one period after the
\* firing that was due, ONE_SHOT is stopped.
TimerAfterFire(t) ==
    IF t.mode = PERIODIC THEN [t EXCEPT !.due = t.due + t.period] ELSE StoppedTimer

IrqDisabled == [enabled |-> FALSE, trigger |-> {}, handler |-> "none"]

\* pin.irq(trigger, handler)
IrqEnabled(trigger, handler) == [enabled |-> TRUE, trigger |-> trigger, handler |-> handler]

\* An interrupt that takes every transition for a qualifying one.
QualifiesAnyEdge(q, edge) == q.enabled

\* A transition qualifies when the interrupt is enabled and its trigger
\* holds the edge.
Qualifies(q, edge) == q.enabled /\ edge \in q.trigger

\* A callback may start whatever is in progress.
CanDispatchNested == TRUE

\* Callbacks run to completion: one starts only when none is in progress.
CanDispatch == running = <<>>

\* A timer that fires whenever it is armed.
FireEnabledWheneverArmed(i) == timers[i].armed

\* Timer i fires when it is armed, its period has elapsed and a callback
\* may start.
FireEnabled(i) == timers[i].armed /\ now >= timers[i].due /\ CanDispatch

\* The module-global counters, and the counter each callback declares
\* global and increments (lines 43, 91, 97, 126, 156, 163).
Counters ==
    {"tick_count", "button_press_count", "fast_count", "slow_count",
     "press_count", "release_count"}

CounterOf(cb) ==
    CASE cb = "timer_callback" -> "tick_count"
      [] cb = "fast_timer_callback" -> "fast_count"
      [] cb = "slow_timer_callback" -> "slow_count"
      [] cb = "button_callback" -> "button_press_count"
      [] cb = "button_press_callback" -> "press_count"
      [] cb = "button_release_callback" -> "release_count"
      [] OTHER -> "none"

Frame(cb, src) == [cb |-> cb, pc |-> 1, tmp |-> 0, src |-> src]

InitGlobals ==
    [tick_count |-> 0, button_press_count |-> 0, fast_count |-> 0, slow_count |-> 0,
     press_count |-> 0, release_count |-> 0, timeout_occurred |-> FALSE]

NoPrint == [line |-> 0, vals |-> <<>>]

\* The state in which the main sequence p starts: nothing armed, the button
\* released (pulled up).
MainInit(p) ==
    /\ prog = p
    /\ pc = 1
    /\ now = 0
    /\ wake = -1
    /\ globals = InitGlobals
    /\ out = NoPrint
    /\ timers = [i \in TimerIds |-> StoppedTimer]
    /\ irq = IrqDisabled
    /\ btn = HIGH
    /\ irqPending = 0
    /\ running = <<>>
    /\ started = [s \in Sources |-> 0]
    /\ completed = [s \in Sources |-> 0]
    /\ lastCall = [s \in Sources |-> "none"]
    /\ edgesSeen = [falling |-> 0, rising |-> 0]
    /\ calls = [c \in Counters |-> 0]
    /\ nEdges = 0

SigIdle ==
    /\ sigChain = <<>>
    /\ sigLastOp = "none"
    /\ sigWrites = <<>>

\* The zero of the floating-point numbers: mantissa m, exponent e, value m * 2^e.
FloatZero == [m |-> 0, e |-> 0]

AdcIdle ==
    /\ adcIn = 0
    /\ adcPc = "idle"
    /\ raw_value = 0
    /\ voltage = FloatZero

\* A file that is not there, and no file object.
Missing == [exists |-> FALSE, data |-> <<>>]
NoFile == [name |-> "", mode |-> ""]
FileNames == {"data.txt", "sensor_log.csv"}

FileIdle ==
    /\ files = [n \in FileNames |-> Missing]
    /\ fileObj = NoFile
    /\ fprog = <<>>
    /\ fpc = 1
    /\ content = <<>>
    /\ shown = <<>>
    /\ runs = 0

\* The peripherals the scripts construct and have to release.
Handles == {"pwm", "adc", "i2c", "spi", "uart"} \cup Sources
NoCause == [kind |-> "none", line |-> 0]

\* The state in which the script named n with the statements p starts.
ExInit(n, p) ==
    /\ xname = n
    /\ xprog = p
    /\ xpc = 1
    /\ xstatus = "running"
    /\ handles = [h \in Handles |-> "none"]
    /\ reports = <<>>
    /\ ioLog = <<>>
    /\ ledOp = "none"
    /\ rx = 0
    /\ data = -1
    /\ iter = 0
    /\ cause = NoCause
    /\ kbdAt = 0
    /\ arrived = 0

ExIdle == ExInit("", <<>>)

\* No handler sleeps; the chip-select pin is a freshly configured output.
DebounceIdle == cbWake = -1
CsIdle == csLevel = 0

\* No fade loop runs.
FadeIdle ==
    /\ fadeAt = "idle"
    /\ dutyIdx = 0
    /\ duty = -1
    /\ prevDuty = -1

\* No parser runs.
ParserIdle ==
    /\ sentLines = <<>>
    /\ peer = <<>>
    /\ uartRx = <<>>
    /\ buffer = <<>>
    /\ responses = <<>>
    /\ consumed = <<>>
    /\ parserOn = FALSE

LateIdle ==
    /\ DebounceIdle
    /\ CsIdle
    /\ FadeIdle
    /\ ParserIdle

ExtIdle ==
    /\ AdcIdle
    /\ FileIdle
    /\ ExIdle
    /\ LateIdle

(***************************************************************************)
(* Part A.  02_led_on_signal.py                                            *)
(***************************************************************************)
\* pin = Pin(LED_PIN, Pin.OUT): no wrapper yet; the level of a freshly
\* configured output is whatever the port holds.
SigInit ==
    /\ pinLevel \in Levels
    /\ SigIdle
    /\ MainInit(<<>>)
    /\ ExtIdle

\* led = Signal(obj, invert=inv): wrap the current outermost object.
SignalWrap(inv) ==
    /\ Len(sigChain) < MaxWrap
    /\ sigChain' = Append(sigChain, inv)
    /\ sigLastOp' = "none"
    /\ UNCHANGED <<pinLevel, sigWrites, mainVars, now, hwVars, histVars, extVars>>

\* The write that led.on() / led.off() ends in: drive the pin.
DrivePin(requested, op) ==
    /\ Len(sigWrites) < MaxSigOps
    /\ pinLevel' = ChainLevel(requested, sigChain)
    /\ sigWrites' = Append(sigWrites, pinLevel')
    /\ sigLastOp' = op
    /\ UNCHANGED <<sigChain, mainVars, now, hwVars, histVars, extVars>>

\* led.on()
SignalOn == DrivePin(HIGH, "on")

\* led.off()
SignalOff == DrivePin(LOW, "off")

SigNext ==
    \/ \E inv \in BOOLEAN : SignalWrap(inv)
    \/ SignalOn
    \/ SignalOff

SpecSignal == SigInit /\ [][SigNext]_vars

(***************************************************************************)
(* Part B.  The main sequence.                                             *)
(***************************************************************************)
\* The main sequence executes a statement only when no callback is in
\* progress and no interrupt is waiting for its handler.
MainCanRun == pc <= Len(prog) /\ running = <<>> /\ irqPending = 0

\* A led.off() that leaves the pin as it is.
ExecLedOffKeeps(s) ==
    /\ pinLevel' = pinLevel
    /\ pc' = pc + 1
    /\ UNCHANGED <<prog, wake, globals, out, now, hwVars, histVars>>

\* led.off() on a Pin: drive the pin to 0.
ExecLedOff(s) ==
    /\ pinLevel' = LOW
    /\ pc' = pc + 1
    /\ UNCHANGED <<prog, wake, globals, out, now, hwVars, histVars>>

\* name = val
ExecAssign(s) ==
    /\ globals' = [globals EXCEPT ![s.name] = s.val]
    /\ calls' = IF s.name \in Counters THEN [calls EXCEPT ![s.name] = 0] ELSE calls
    /\ pc' = pc + 1
    /\ UNCHANGED <<pinLevel, prog, wake, out, now, hwVars,
                   started, completed, lastCall, edgesSeen, nEdges>>

\* timer.init(period=, mode=, callback=)
ExecInit(s) ==
    /\ timers' = [timers EXCEPT ![s.timer] = ArmedTimer(s.period, s.mode, s.cb, now)]
    /\ lastCall' = [lastCall EXCEPT ![TimerSource(s.timer)] = "init"]
    /\ pc' = pc + 1
    /\ UNCHANGED <<pinLevel, prog, wake, globals, out, now, irq, btn, irqPending, running,
                   started, completed, edgesSeen, calls, nEdges>>

\* timer.deinit()
ExecDeinit(s) ==
    /\ timers' = [timers EXCEPT ![s.timer] = TimerAfterDeinit(timers[s.timer])]
    /\ lastCall' = [lastCall EXCEPT ![TimerSource(s.timer)] = "deinit"]
    /\ pc' = pc + 1
    /\ UNCHANGED <<pinLevel, prog, wake, globals, out, now, irq, btn, irqPending, running,
                   started, completed, edgesSeen, calls, nEdges>>

\* time.sleep(): the statement begins the sleep, and ends once the time is up.
ExecSleep(s) ==
    /\ \/ /\ wake = -1
          /\ wake' = now + s.ms
          /\ pc' = pc
       \/ /\ wake # -1
          /\ now >= wake
          /\ wake' = -1
          /\ pc' = pc + 1
    /\ UNCHANGED <<pinLevel, prog, globals, out, now, hwVars, histVars>>

\* print(f"... {name} ...")
ExecPrint(s) ==
    /\ out' = [line |-> s.line, vals |-> [k \in 1..Len(s.names) |-> globals[s.names[k]]]]
    /\ pc' = pc + 1
    /\ UNCHANGED <<pinLevel, prog, wake, globals, now, hwVars, histVars>>

\* if flag: print(...)
ExecPrintIf(s) ==
    /\ out' = IF globals[s.flag] THEN [line |-> s.line + 1, vals |-> <<>>] ELSE out
    /\ pc' = pc + 1
    /\ UNCHANGED <<pinLevel, prog, wake, globals, now, hwVars, histVars>>

\* button.irq(trigger=, handler=)
ExecIrq(s) ==
    /\ irq' = IrqEnabled(s.trigger, s.handler)
    /\ irqPending' = 0
    /\ lastCall' = [lastCall EXCEPT !["irq"] = "init"]
    /\ edgesSeen' = [falling |-> 0, rising |-> 0]
    /\ pc' = pc + 1
    /\ UNCHANGED <<pinLevel, prog, wake, globals, out, now, timers, btn, running,
                   started, completed, calls, nEdges>>

\* button.irq(handler=None)
ExecIrqOff(s) ==
    /\ irq' = IrqDisabled
    /\ irqPending' = 0
    /\ lastCall' = [lastCall EXCEPT !["irq"] = "deinit"]
    /\ pc' = pc + 1
    /\ UNCHANGED <<pinLevel, prog, wake, globals, out, now, timers, btn, running,
                   started, completed, edgesSeen, calls, nEdges>>

\* The next statement of the main sequence.
MainStep ==
    /\ MainCanRun
    /\ LET s == prog[pc] IN
         CASE s.op = "led_off" -> ExecLedOff(s)
           [] s.op = "assign" -> ExecAssign(s)
           [] s.op = "init" -> ExecInit(s)
           [] s.op = "deinit" -> ExecDeinit(s)
           [] s.op = "sleep" -> ExecSleep(s)
           [] s.op = "print" -> ExecPrint(s)
           [] s.op = "print_if" -> ExecPrintIf(s)
           [] s.op = "irq" -> ExecIrq(s)
           [] s.op = "irq_off" -> ExecIrqOff(s)
    /\ UNCHANGED <<sigVars, extVars>>

(***************************************************************************)
(* Time, the timers, the button and the callbacks.                         *)
(***************************************************************************)
Min(S) == CHOOSE x \in S : \A y \in S : x <= y

ArmedIds == {i \in TimerIds : timers[i].armed}

\* Time passes while the main sequence sleeps and nothing is due: up to the
\* end of the sleep or the next firing, whichever comes first.
Advance ==
    /\ running = <<>>
    /\ irqPending = 0
    /\ wake # -1
    /\ now < wake
    /\ \A i \in ArmedIds : timers[i].due > now
    /\ now' = Min({wake} \cup {timers[i].due : i \in ArmedIds})
    /\ UNCHANGED <<pinLevel, sigVars, extVars, mainVars, hwVars, histVars>>

\* Timer i fires: its callback starts.
Fire(i) ==
    /\ FireEnabled(i)
    /\ running' = Append(running, Frame(timers[i].cb, TimerSource(i)))
    /\ timers' = [timers EXCEPT ![i] = TimerAfterFire(timers[i])]
    /\ started' = [started EXCEPT ![TimerSource(i)] = @ + 1]
    /\ UNCHANGED <<pinLevel, sigVars, extVars, mainVars, now, irq, btn, irqPending,
                   completed, lastCall, edgesSeen, calls, nEdges>>

\* The button pin changes level; a qualifying transition raises the interrupt.
Edge ==
    /\ nEdges < MaxEdges
    /\ LET edge == IF btn = HIGH THEN "falling" ELSE "rising" IN
         /\ btn' = Invert(btn)
         /\ irqPending' = IF Qualifies(irq, edge) THEN irqPending + 1 ELSE irqPending
         /\ edgesSeen' = IF irq.enabled THEN [edgesSeen EXCEPT ![edge] = @ + 1] ELSE edgesSeen
    /\ nEdges' = nEdges + 1
    /\ UNCHANGED <<pinLevel, sigVars, extVars, mainVars, now, timers, irq, running,
                   started, completed, lastCall, calls>>

\* The handler of a raised interrupt starts.
IrqDispatch ==
    /\ irq.enabled
    /\ irqPending > 0
    /\ CanDispatch
    /\ irqPending' = irqPending - 1
    /\ running' = Append(running, Frame(irq.handler, "irq"))
    /\ started' = [started EXCEPT !["irq"] = @ + 1]
    /\ UNCHANGED <<pinLevel, sigVars, extVars, mainVars, now, timers, irq, btn,
                   completed, lastCall, edgesSeen, calls, nEdges>>

Top == running[Len(running)]
SetTop(f) == [running EXCEPT ![Len(running)] = f]

\* The innermost callback in progress executes its next statement.
CbStep ==
    /\ running # <<>>
    /\ Top.pc <= Len(Body(Top.cb))
    /\ Body(Top.cb)[Top.pc].op \notin HandlerOps
    /\ LET f == Top
           c == Body(f.cb)[f.pc]
           next == [f EXCEPT !.pc = f.pc + 1]
       IN  /\ pinLevel' = CASE c.op = "toggle" -> Invert(pinLevel)
                            [] c.op = "led_on" -> HIGH
                            [] c.op = "led_off" -> LOW
                            [] OTHER -> pinLevel
           /\ globals' = CASE c.op = "store_inc" -> [globals EXCEPT ![c.name] = f.tmp + 1]
                           [] c.op = "set" -> [globals EXCEPT ![c.name] = c.val]
                           [] OTHER -> globals
           /\ out' = IF c.op = "print"
                     THEN [line |-> c.line,
                           vals |-> [k \in 1..Len(c.names) |-> globals[c.names[k]]]]
                     ELSE out
           /\ running' = CASE c.op = "load" -> SetTop([next EXCEPT !.tmp = globals[c.name]])
                           [] c.op = "pin_value" -> SetTop([next EXCEPT !.tmp = btn])
                           [] c.op = "branch" ->
                                SetTop([f EXCEPT !.cb = IF f.tmp = LOW THEN c.ifLow
                                                        ELSE c.ifHigh,
                                                 !.pc = 1])
                           [] OTHER -> SetTop(next)
    /\ UNCHANGED <<sigVars, extVars, prog, pc, wake, now, timers, irq, btn, irqPending, histVars>>

\* The innermost callback in progress returns.
CbReturn ==
    /\ running # <<>>
    /\ Top.pc > Len(Body(Top.cb))
    /\ running' = SubSeq(running, 1, Len(running) - 1)
    /\ completed' = [completed EXCEPT ![Top.src] = @ + 1]
    /\ calls' = IF CounterOf(Top.cb) \in Counters
                THEN [calls EXCEPT ![CounterOf(Top.cb)] = @ + 1]
                ELSE calls
    /\ UNCHANGED <<pinLevel, sigVars, extVars, mainVars, now, timers, irq, btn, irqPending,
                   started, lastCall, edgesSeen, nEdges>>

\* The handler in progress disables the interrupt (pin.irq(handler=None))
\* or enables it (pin.irq(trigger=, handler=)).
CbIrq ==
    /\ running # <<>>
    /\ Top.pc <= Len(Body(Top.cb))
    /\ LET c == Body(Top.cb)[Top.pc] IN
         /\ c.op \in {"irq_off", "irq_on"}
         /\ irq' = IF c.op = "irq_off" THEN IrqDisabled ELSE IrqEnabled(c.trigger, c.handler)
         /\ irqPending' = 0
         /\ running' = SetTop([Top EXCEPT !.pc = Top.pc + 1])
    /\ UNCHANGED <<pinLevel, sigVars, extVars, mainVars, now, timers, btn, histVars>>

\* time.sleep_ms() in a handler: the statement begins the sleep, and ends
\* once the time is up.
CbSleep ==
    /\ running # <<>>
    /\ Top.pc <= Len(Body(Top.cb))
    /\ LET c == Body(Top.cb)[Top.pc] IN
         /\ c.op = "sleep_ms"
         /\ \/ /\ cbWake = -1
               /\ cbWake' = now + c.ms
               /\ running' = running
            \/ /\ cbWake # -1
               /\ now >= cbWake
               /\ cbWake' = -1
               /\ running' = SetTop([Top EXCEPT !.pc = Top.pc + 1])
    /\ UNCHANGED <<pinLevel, sigVars, adcVars, fileVars, exVars, csLevel, fadeVars, parserVars,
                   mainVars, now, timers, irq, btn, irqPending, histVars>>

\* Time passes while the handler sleeps: the processor stays in the handler,
\* whatever falls due in the meantime.
CbAdvance ==
    /\ running # <<>>
    /\ cbWake # -1
    /\ now < cbWake
    /\ now' = cbWake
    /\ UNCHANGED <<pinLevel, sigVars, extVars, mainVars, hwVars, histVars>>

(***************************************************************************)
(* Spec: 11_timer_interrupt.py as written.                                 *)
(***************************************************************************)
Init ==
    /\ pinLevel \in Levels
    /\ SigIdle
    /\ MainInit(Script11)
    /\ ExtIdle

Next ==
    \/ MainStep
    \/ Advance
    \/ \E i \in TimerIds : Fire(i)
    \/ Edge
    \/ IrqDispatch
    \/ CbStep
    \/ CbReturn

Spec == Init /\ [][Next]_vars

(***************************************************************************)
(* SpecRun: one example of the script on its own, with its period,         *)
(* duration or trigger drawn from the bounded sets.                        *)
(***************************************************************************)
Periods == 1..MaxPeriod
Runs == 0..MaxRun
Triggers == {IRQ_FALLING, IRQ_RISING, IRQ_FALLING \cup IRQ_RISING}

\* Each example with the drawn values, and with the values of the script.
RunPrograms ==
    {Prologue \o Example1(T, D) : T \in Periods, D \in Runs}
    \cup {Prologue \o Example2(P, D) : P \in Periods, D \in Runs}
    \cup {Prologue \o Example4(g, D) : g \in Triggers, D \in {MaxRun}}
    \cup {Prologue \o Example1(Period1, Run1),
          Prologue \o Example2(Period2, Run2),
          Prologue \o Example4(IRQ_FALLING, Run4)}

RunInit ==
    /\ pinLevel \in Levels
    /\ SigIdle
    /\ \E p \in RunPrograms : MainInit(p)
    /\ ExtIdle

SpecRun == RunInit /\ [][Next]_vars

(***************************************************************************)
(* SpecDebounce: debounced_button_handler installed on the button as       *)
(* Example 4 installs its handler (lines 135-141), beside the PERIODIC     *)
(* timer of line 106.  The trigger of the first installation is drawn.     *)
(***************************************************************************)
DebounceRun(T, trigger, D) ==
    Prologue
    \o << SInit(106, 0, T, PERIODIC, "fast_timer_callback"),
          SIrq(135, trigger, "debounced_button_handler"),
          SSleep(138, D),
          SIrqOff(141),
          SDeinit(113, 0) >>

DebouncePrograms == {DebounceRun(T, g, Run2) : T \in {FastPeriod, SlowPeriod}, g \in Triggers}

DebounceInit ==
    /\ pinLevel \in Levels
    /\ SigIdle
    /\ \E p \in DebouncePrograms : MainInit(p)
    /\ ExtIdle

DebounceNext ==
    \/ MainStep
    \/ Advance
    \/ \E i \in TimerIds : Fire(i)
    \/ Edge
    \/ IrqDispatch
    \/ CbStep
    \/ CbReturn
    \/ CbIrq
    \/ CbSleep
    \/ CbAdvance

SpecDebounce == DebounceInit /\ [][DebounceNext]_vars

(***************************************************************************)
(* SpecLoop: Example 6 on its own, a loop of n sleeps of D beside a        *)
(* PERIODIC timer of period T, with the values drawn and with those of the *)
(* script.  The processor executes what is enabled: a statement of the     *)
(* main sequence, the passing of time, a firing that is due, a statement   *)
(* of the callback in progress, its return.                                *)
(***************************************************************************)
LoopPrograms ==
    {Prologue \o Example6(T, n, D) : T \in Periods, n \in 1..MaxLoop, D \in Runs}
    \cup {Prologue \o Example6(BlinkPeriod, LoopCount6, LoopSleep6)}

LoopInit ==
    /\ pinLevel \in Levels
    /\ SigIdle
    /\ \E p \in LoopPrograms : MainInit(p)
    /\ ExtIdle

LoopNext ==
    \/ MainStep
    \/ Advance
    \/ \E i \in TimerIds : Fire(i)
    \/ CbStep
    \/ CbReturn

LoopFairness ==
    /\ WF_vars(MainStep)
    /\ WF_vars(Advance)
    /\ \A i \in TimerIds : WF_vars(Fire(i))
    /\ WF_vars(CbStep)
    /\ WF_vars(CbReturn)

SpecLoop == LoopInit /\ [][LoopNext]_vars /\ LoopFairness

(***************************************************************************)
(* Properties.                                                             *)
(***************************************************************************)
\* The runs of SpecRun: which example the program is, and its parameters.
PrologueLen == Len(Prologue)
IsExample1Run == Len(prog) > PrologueLen /\ prog[PrologueLen + 1].line = 50
IsExample2Run == Len(prog) > PrologueLen /\ prog[PrologueLen + 1].line = 72
IsExample4Run == Len(prog) > PrologueLen /\ prog[PrologueLen + 1].line = 135

\* The main sequence has executed the statement of this line (once, in a
\* program without loops).
Past(line) == \E k \in 1..Len(prog) : prog[k].line = line /\ pc > k

InitOf(line) == prog[CHOOSE k \in 1..Len(prog) : prog[k].line = line]
SleepOf(line) == prog[CHOOSE k \in 1..Len(prog) : prog[k].line = line].ms

\* Firings of a timer of period T armed at 0 that fall due before D, and
\* those that fall due at D or before.
DueBefore(T, D) == Cardinality({k \in 1..D : k * T < D})
DueUpTo(T, D) == Cardinality({k \in 1..D : k * T <= D})

\* C1 as stated: when deinit has returned, a PERIODIC timer of period T run
\* for D has invoked its callback exactly floor(D/T) times, the firing due
\* exactly at D not being counted.
C1_ExactFloorExcludingBoundary ==
    (IsExample1Run /\ Past(56)) =>
        /\ started["timer0"] = SleepOf(53) \div InitOf(50).period
        /\ started["timer0"] = DueBefore(InitOf(50).period, SleepOf(53))

\* C1, amended: when deinit has returned, the callback has been invoked
\* floor(D/T) times when D is not a positive multiple of T; when it is, the
\* firing due exactly at D races with deinit and the count is floor(D/T) or
\* floor(D/T) - 1.  tick_count holds that count until line 59 resets it.
C1_FloorUpToBoundaryRace ==
    (IsExample1Run /\ Past(56)) =>
        LET T == InitOf(50).period
            D == SleepOf(53)
            n == started["timer0"]
        IN  /\ DueUpTo(T, D) = D \div T
            /\ DueBefore(T, D) <= n
            /\ n <= D \div T
            /\ (D % T # 0 \/ D = 0) => n = D \div T
            /\ completed["timer0"] = n
            /\ ~Past(59) => globals["tick_count"] = n
            /\ out.line = 57 => out.vals = <<n>>

\* C1 witness: a run whose duration is a multiple of the period, after
\* deinit, in which the firing due exactly at D was delivered.
C1_Witness ==
    /\ IsExample1Run
    /\ Past(57)
    /\ SleepOf(53) % InitOf(50).period = 0
    /\ SleepOf(53) >= 2 * InitOf(50).period
    /\ started["timer0"] = SleepOf(53) \div InitOf(50).period
    /\ out.vals = <<started["timer0"]>>

\* C2 as stated: at the final print of Example 3 fast_count is 25 and
\* slow_count is 5.
C2_Counts25And5 ==
    out.line = 116 => out.vals = <<Run3 \div FastPeriod, Run3 \div SlowPeriod>>

\* C2, amended: at the final print of Example 3 fast_count is 24 or 25 and
\* slow_count is 4 or 5; each is the larger value exactly when the firing
\* of its timer due at 5000 ms was delivered before its deinit.
C2_CountsUpToBoundaryRace ==
    out.line = 116 =>
        /\ Run3 \div FastPeriod = 25
        /\ Run3 \div SlowPeriod = 5
        /\ out.vals[1] \in {24, 25}
        /\ out.vals[2] \in {4, 5}
        /\ out.vals = <<globals["fast_count"], globals["slow_count"]>>
        /\ out.vals = <<calls["fast_count"], calls["slow_count"]>>

\* C2 witness: the final print of Example 3 with 25 and 5.
C2_Witness == out.line = 116 /\ out.vals = <<25, 5>>

\* C3 as stated: a ONE_SHOT timer of period P left armed for at least P ms
\* has invoked its callback exactly once when it is deinitialized.
C3_OnceIfArmedAtLeastP ==
    (IsExample2Run /\ Past(79) /\ SleepOf(77) >= InitOf(74).period) =>
        started["timer1"] = 1

\* C3, amended: a ONE_SHOT timer of period P invokes its callback exactly
\* once if it is left armed for more than P ms (at exactly P the firing
\* races with deinit and the callback runs once or not at all); the firing
\* leaves the timer stopped, and the callback is never invoked a second
\* time, before or after deinit.
C3_OnceIfArmedLongerThanP ==
    IsExample2Run =>
        LET P == InitOf(74).period
            D == SleepOf(77)
            n == started["timer1"]
        IN  /\ n <= 1
            /\ n = 1 => ~timers[1].armed
            /\ (Past(79) /\ D > P) => (n = 1 /\ completed["timer1"] = 1)
            /\ (Past(79) /\ D < P) => n = 0

\* C3 witness: after deinit of a ONE_SHOT timer that was armed for longer
\* than its period and has fired once.
C3_Witness ==
    /\ IsExample2Run
    /\ Past(79)
    /\ SleepOf(77) >= 2 * InitOf(74).period
    /\ started["timer1"] = 1
    /\ completed["timer1"] = 1

C5_TimerLifecycle ==
    [][ \A i \in TimerIds :
          LET s == TimerSource(i)
              mainOp == IF running = <<>> /\ pc <= Len(prog) /\ pc' = pc + 1
                        THEN prog[pc].op ELSE "none"
          IN  /\ started'[s] # started[s] =>
                    /\ timers[i].armed
                    /\ started'[s] = started[s] + 1
                    /\ timers[i].mode = PERIODIC => timers'[i].armed
                    /\ timers[i].mode = ONE_SHOT => ~timers'[i].armed
              /\ (~timers[i].armed /\ timers'[i].armed) => mainOp = "init"
              /\ (timers[i].armed /\ ~timers'[i].armed) =>
                    \/ mainOp = "deinit"
                    \/ timers[i].mode = ONE_SHOT /\ started'[s] = started[s] + 1
      ]_vars

\* C5 witness: the callback of a ONE_SHOT timer is in progress and the
\* timer is already stopped, with no deinit issued since its init.
C5_Witness ==
    /\ running # <<>>
    /\ Top.src = "timer1"
    /\ Top.cb = "one_shot_callback"
    /\ ~timers[1].armed
    /\ lastCall["timer1"] = "init"

\* C6: at most one callback is in progress at any time, and whenever none
\* is in progress every counter equals the number of invocations of its
\* callback that have returned since the counter was last assigned.
C6_CountersEqualInvocations ==
    /\ Len(running) <= 1
    /\ running = <<>> => \A c \in Counters : globals[c] = calls[c]

\* C6 witness: the handler of the button interrupt has run twice and
\* returned, with the interrupt still enabled.
C6_Witness ==
    /\ running = <<>>
    /\ globals["button_press_count"] = 2
    /\ calls["button_press_count"] = 2
    /\ irq.enabled
    /\ pinLevel = LOW

\* The callbacks in progress that timer / interrupt source s started.
InProgress(s) == {k \in 1..Len(running) : running[k].src = s}

\* C7: of one timer at most one callback invocation is in progress, and the
\* next one starts only after the previous one has returned.
C7_OneInvocationPerTimer ==
    \A i \in TimerIds :
        LET s == TimerSource(i) IN
            /\ Cardinality(InProgress(s)) <= 1
            /\ started[s] - completed[s] = Cardinality(InProgress(s))

\* C7 witness: a later firing of a PERIODIC timer is in progress after the
\* earlier ones have returned.
C7_Witness ==
    /\ running # <<>>
    /\ Top.src = "timer0"
    /\ Top.cb = "blink_callback"
    /\ started["timer0"] - completed["timer0"] = 1
    /\ completed["timer0"] >= 2
    /\ timers[0].mode = PERIODIC
    /\ timers[0].due > now + BlinkPeriod - 1

\* The transitions since the interrupt was enabled that qualify for `trigger`.
QualifyingSeen(trigger) ==
    (IF "falling" \in trigger THEN edgesSeen["falling"] ELSE 0)
    + (IF "rising" \in trigger THEN edgesSeen["rising"] ELSE 0)

\* C8: the interrupt is Disabled, or Enabled with a trigger; every qualifying
\* transition, and no other, starts the handler once; at the print of
\* Example 4 button_press_count is the number of qualifying transitions
\* between irq(trigger, handler) and irq(handler=None) (the falling edges,
\* for IRQ_FALLING).
C8_OncePerQualifyingEdge ==
    IsExample4Run =>
        LET trigger == InitOf(135).trigger IN
            /\ irq.enabled => (irq.trigger = trigger /\ irq.trigger # {})
            /\ ~irq.enabled => (irq = IrqDisabled /\ irqPending = 0)
            /\ lastCall["irq"] = "none" => started["irq"] = 0
            /\ lastCall["irq"] # "none" =>
                   started["irq"] + irqPending = QualifyingSeen(trigger)
            /\ Past(141) =>
                   /\ completed["irq"] = QualifyingSeen(trigger)
                   /\ globals["button_press_count"] = QualifyingSeen(trigger)
            /\ out.line = 142 => out.vals = <<QualifyingSeen(trigger)>>

\* C8 witness: Example 4 as in the script (IRQ_FALLING) has printed a count
\* of 2 after two falling edges and a rising edge.
C8_Witness ==
    /\ IsExample4Run
    /\ InitOf(135).trigger = IRQ_FALLING
    /\ out.line = 142
    /\ out.vals = <<2>>
    /\ edgesSeen = [falling |-> 2, rising |-> 1]

\* C9: right after on() of a Signal around the pin with flag invert the pin
\* is LOW if invert and HIGH if not; right after off() it is HIGH if invert
\* and LOW if not (physical level = requested level XOR invert).
C9_SignalOnOffLevels ==
    Len(sigChain) = 1 =>
        /\ sigLastOp = "on" => pinLevel = (IF sigChain[1] THEN LOW ELSE HIGH)
        /\ sigLastOp = "off" => pinLevel = (IF sigChain[1] THEN HIGH ELSE LOW)
        /\ sigLastOp # "none" => pinLevel = sigWrites[Len(sigWrites)]

\* C9 witness: 02_led_on_signal.py after led.on(), invert=True, pin LOW.
C9_Witness ==
    /\ sigChain = <<TRUE>>
    /\ sigLastOp = "on"
    /\ pinLevel = LOW

\* The level requested of the outermost object by the last operation.
Requested == IF sigLastOp = "on" THEN HIGH ELSE LOW

\* C10: inverting twice gives the level back, and two Signals with
\* invert=True around an object drive it as the object would be driven
\* directly (around the pin: like the raw pin).
C10_InversionInvolutive ==
    /\ \A x \in Levels : Invert(Invert(x)) = x
    /\ LET n == Len(sigChain) IN
         (n >= 2 /\ sigChain[n] /\ sigChain[n - 1] /\ sigLastOp # "none") =>
             /\ pinLevel = ChainLevel(Requested, SubSeq(sigChain, 1, n - 2))
             /\ n = 2 => pinLevel = Requested

\* C10 witness: on() of a Signal(invert=True) around a Signal(invert=True)
\* around the pin has driven the pin HIGH.
C10_Witness ==
    /\ sigChain = <<TRUE, TRUE>>
    /\ sigLastOp = "on"
    /\ pinLevel = HIGH

(***************************************************************************)
(* Part C.  04_adc_analog_input.py                                         *)
(*                                                                         *)
(* A float is a record [m, e] of value m * 2^e whose mantissa m is 0 or    *)
(* has exactly FloatBits bits; every operation rounds its exact result to  *)
(* the nearest such number, ties to the even mantissa.                     *)
(***************************************************************************)
FloatBits == 24
AdcMax == 65535

Normal(m, e) ==
    IF m = 2^FloatBits THEN [m |-> 2^(FloatBits - 1), e |-> e + 1]
    ELSE [m |-> m, e |-> e]

\* The number of doublings of a that reach b, and of b that reach a.
RECURSIVE LeftShifts(_, _)
LeftShifts(a, b) == IF a >= b THEN 0 ELSE 1 + LeftShifts(2 * a, b)

RECURSIVE RightShifts(_, _)
RightShifts(a, b) == IF a < 2 * b THEN 0 ELSE 1 + RightShifts(a, 2 * b)

\* Quotient and remainder of a * 2^s by b, twelve bits of s at a time.
RECURSIVE ShiftDiv(_, _, _)
ShiftDiv(a, b, s) ==
    IF s <= 12 THEN [q |-> (a * 2^s) \div b, r |-> (a * 2^s) % b]
    ELSE LET h == ShiftDiv(a, b, s - 12)
         IN [q |-> h.q * 4096 + (h.r * 4096) \div b, r |-> (h.r * 4096) % b]

\* a / b of two non-negative integers, b > 0: the true division of the script.
FloatDiv(a, b) ==
    IF a = 0 THEN FloatZero
    ELSE LET j == RightShifts(a, b)
             bb == b * 2^j
             s == LeftShifts(a, bb) + FloatBits - 1
             d == ShiftDiv(a, bb, s)
             up == 2 * d.r > bb \/ (2 * d.r = bb /\ d.q % 2 = 1)
         IN Normal(IF up THEN d.q + 1 ELSE d.q, j - s)

\* x * y of two floats: the exact product is hi * 2^24 + low.
FloatMul(x, y) ==
    IF x.m = 0 \/ y.m = 0 THEN FloatZero
    ELSE LET x1 == x.m \div 4096
             x0 == x.m % 4096
             y1 == y.m \div 4096
             y0 == y.m % 4096
             mid == x1 * y0 + x0 * y1
             t == (mid % 4096) * 4096 + x0 * y0
             hi == x1 * y1 + mid \div 4096 + t \div 2^24
             low == t % 2^24
             shift == IF hi >= 2^(2 * FloatBits - 25) THEN FloatBits ELSE FloatBits - 1
             q == IF shift >= 24 THEN hi \div 2^(shift - 24)
                  ELSE hi * 2^(24 - shift) + low \div 2^shift
             rem == IF shift >= 24 THEN (hi % 2^(shift - 24)) * 2^24 + low
                    ELSE low % 2^shift
             half == 2^(shift - 1)
             up == rem > half \/ (rem = half /\ q % 2 = 1)
         IN Normal(IF up THEN q + 1 ELSE q, x.e + y.e + shift)

\* x <= y for two non-negative floats.
FloatLeq(x, y) ==
    \/ x.m = 0
    \/ y.m # 0 /\ (x.e < y.e \/ (x.e = y.e /\ x.m <= y.m))

\* VREF = 3.3
VREF == FloatDiv(33, 10)

\* A conversion that divides by the number of codes instead of the top code.
VoltageOver65536(raw) == FloatMul(FloatDiv(raw, AdcMax + 1), VREF)

\* voltage = (raw_value / 65535) * VREF
Voltage(raw) == FloatMul(FloatDiv(raw, AdcMax), VREF)

\* adc = ADC(Pin(ADC_PIN)): the level on the pin is any of the 16-bit samples.
AdcInit ==
    /\ adcIn \in 0..AdcMax
    /\ adcPc = "read"
    /\ raw_value = 0
    /\ voltage = FloatZero
    /\ pinLevel = LOW
    /\ SigIdle
    /\ MainInit(<<>>)
    /\ FileIdle
    /\ ExIdle
    /\ LateIdle

\* raw_value = adc.read_u16()
AdcRead ==
    /\ adcPc = "read"
    /\ raw_value' = adcIn
    /\ adcPc' = "convert"
    /\ UNCHANGED <<adcIn, voltage, pinLevel, sigVars, mainVars, now, hwVars, histVars, fileVars, exVars,
                   lateVars>>

\* voltage = (raw_value / 65535) * VREF
AdcConvert ==
    /\ adcPc = "convert"
    /\ voltage' = Voltage(raw_value)
    /\ adcPc' = "print"
    /\ UNCHANGED <<adcIn, raw_value, pinLevel, sigVars, mainVars, now, hwVars, histVars, fileVars, exVars,
                   lateVars>>

\* print(f"Raw: {raw_value:5d} | Voltage: {voltage:.2f}V")
AdcPrint ==
    /\ adcPc = "print"
    /\ adcPc' = "sleep"
    /\ UNCHANGED <<adcIn, raw_value, voltage, pinLevel, sigVars, mainVars, now, hwVars,
                   histVars, fileVars, exVars,
                   lateVars>>

\* time.sleep(1), and the next round of while True
AdcSleep ==
    /\ adcPc = "sleep"
    /\ adcPc' = "read"
    /\ UNCHANGED <<adcIn, raw_value, voltage, pinLevel, sigVars, mainVars, now, hwVars,
                   histVars, fileVars, exVars,
                   lateVars>>

AdcNext ==
    \/ AdcRead
    \/ AdcConvert
    \/ AdcPrint
    \/ AdcSleep

SpecAdc == AdcInit /\ [][AdcNext]_vars

(***************************************************************************)
(* C11.  The voltage computed from a sample is exact at both ends of the   *)
(* range (0 gives 0.0, 65535 gives VREF = 3.3), never leaves [0, VREF],    *)
(* and is non-decreasing in the sample: the voltage of each sample is at   *)
(* least the voltage of the sample one below it.                           *)
(***************************************************************************)
C11_VoltageExactMonotoneBounded ==
    adcPc \in {"print", "sleep"} =>
        /\ raw_value = 0 => voltage = FloatZero
        /\ raw_value = AdcMax => voltage = VREF
        /\ FloatLeq(FloatZero, voltage)
        /\ FloatLeq(voltage, VREF)
        /\ raw_value > 0 => FloatLeq(Voltage(raw_value - 1), voltage)

\* The full-scale sample has been converted, and gave VREF.
C11_Witness ==
    /\ adcPc = "print"
    /\ raw_value = AdcMax
    /\ voltage = VREF

(***************************************************************************)
(* Part D.  07_file_operations.py                                          *)
(*                                                                         *)
(* The contents of a file are a sequence of pieces of text; the piece      *)
(* "\n" is the newline, no other piece holds a newline, and no line        *)
(* begins or ends with white space.  The piece "{}" of a text to write     *)
(* stands for the formatted time.time().                                   *)
(***************************************************************************)
MaxLines == 2
MaxRuns == 2
LogCount == 5
LogSleep == 500

NL == "\n"
FStmt(op, arg, line) == [op |-> op, arg |-> arg, line |-> line]
FName(name, mode) == [name |-> name, mode |-> mode]

\* Examples 1 to 4 on data.txt, writing the lines ws and appending the lines as.
DataExamples(ws, as) ==
    <<FStmt("open", FName("data.txt", "w"), 29)>>
    \o [k \in 1..Len(ws) |-> FStmt("write", ws[k].text \o <<NL>>, ws[k].line)]
    \o <<FStmt("close", 0, 35),
         FStmt("open", FName("data.txt", "r"), 39),
         FStmt("read", 0, 40),
         FStmt("print_split", 0, 43),
         FStmt("close", 0, 46),
         FStmt("open", FName("data.txt", "a"), 50)>>
    \o [k \in 1..Len(as) |-> FStmt("write", as[k].text \o <<NL>>, as[k].line)]
    \o <<FStmt("close", 0, 54),
         FStmt("open", FName("data.txt", "r"), 58),
         FStmt("print_lines", 0, 60),
         FStmt("close", 0, 62)>>

\* Example 5: the header, then one appended row per round of the loop.
Header == <<"Timestamp,Temperature,Humidity", NL>>

RECURSIVE LogRounds(_)
LogRounds(n) ==
    IF n = 0 THEN <<>>
    ELSE LogRounds(n - 1)
         \o <<FStmt("open", FName("sensor_log.csv", "a"), 79),
              FStmt("write_row", n - 1, 80),
              FStmt("close", 0, 82),
              FStmt("sleep", LogSleep, 83)>>

LogExample ==
    <<FStmt("open", FName("sensor_log.csv", "w"), 69),
      FStmt("write", Header, 70),
      FStmt("close", 0, 73)>>
    \o LogRounds(LogCount)

Script07 ==
    DataExamples(<<[text |-> <<"PSoC 6 MicroPython File Example">>, line |-> 30],
                   [text |-> <<"Temperature: 25.5 C">>, line |-> 31],
                   [text |-> <<"Humidity: 60%">>, line |-> 32],
                   [text |-> <<"Timestamp: ", "{}">>, line |-> 33]>>,
                 <<[text |-> <<"Appended data at: ", "{}">>, line |-> 51],
                   [text |-> <<"Status: OK">>, line |-> 52]>>)
    \o LogExample

\* time.time(): whole seconds.
Time == now \div 1000

\* '...{}...'.format(t) and the f-string of line 51
Fill(text, t) == [k \in DOMAIN text |-> IF text[k] = "{}" THEN ToString(t) ELSE text[k]]

\* The float 25.0 + i * 0.5 in tenths, as str() shows it.
FormatTenths(n) == <<ToString(n \div 10), ".", ToString(n % 10)>>

\* f'{timestamp},{temperature},{humidity}\n' of round i
Row(i, t) ==
    <<ToString(t), ",">> \o FormatTenths(250 + i * 5) \o <<",", ToString(60 + i * 2), NL>>

\* Open modes that keep the old contents whatever the mode, and that drop them.
OpenKeepsContents(old, mode) == [exists |-> TRUE, data |-> old.data]
OpenAlwaysTruncates(old, mode) == [exists |-> TRUE, data |-> <<>>]

\* open(name, mode): what the file holds once it is open.
OpenContents(old, mode) ==
    CASE mode = "w" -> [exists |-> TRUE, data |-> <<>>]
      [] mode = "a" -> [exists |-> TRUE, data |-> old.data]
      [] OTHER -> old

\* The first newline of c, 0 if it has none.
FirstNL(c) ==
    IF \E k \in 1..Len(c) : c[k] = NL
    THEN CHOOSE k \in 1..Len(c) : c[k] = NL /\ \A j \in 1..(k - 1) : c[j] # NL
    ELSE 0

\* content.split('\n')
RECURSIVE Split(_)
Split(c) ==
    IF FirstNL(c) = 0 THEN <<c>>
    ELSE <<SubSeq(c, 1, FirstNL(c) - 1)>> \o Split(SubSeq(c, FirstNL(c) + 1, Len(c)))

\* for line in f: each line with its newline.
RECURSIVE FileLines(_)
FileLines(c) ==
    IF c = <<>> THEN <<>>
    ELSE IF FirstNL(c) = 0 THEN <<c>>
    ELSE <<SubSeq(c, 1, FirstNL(c))>> \o FileLines(SubSeq(c, FirstNL(c) + 1, Len(c)))

\* line.strip()
RECURSIVE Strip(_)
Strip(l) ==
    IF l = <<>> THEN l
    ELSE IF Head(l) \in {NL, " "} THEN Strip(Tail(l))
    ELSE IF l[Len(l)] \in {NL, " "} THEN Strip(SubSeq(l, 1, Len(l) - 1))
    ELSE l

fileFrame ==
    <<pinLevel, sigVars, prog, pc, wake, globals, out, hwVars, histVars, adcVars, exVars,
      lateVars>>
FileStmt(op) == fpc <= Len(fprog) /\ fprog[fpc].op = op

\* with open(name, mode) as f:
FileOpen ==
    /\ FileStmt("open")
    /\ fileObj = NoFile
    /\ fprog[fpc].arg.mode = "r" => files[fprog[fpc].arg.name].exists
    /\ files' = [files EXCEPT ![fprog[fpc].arg.name] = OpenContents(@, fprog[fpc].arg.mode)]
    /\ fileObj' = fprog[fpc].arg
    /\ fpc' = fpc + 1
    /\ UNCHANGED <<fprog, content, shown, runs, now, fileFrame>>

\* f.write(text): at the end of the file.
FileWrite ==
    /\ FileStmt("write")
    /\ fileObj.mode \in {"w", "a"}
    /\ files' = [files EXCEPT ![fileObj.name].data = @ \o Fill(fprog[fpc].arg, Time)]
    /\ fpc' = fpc + 1
    /\ UNCHANGED <<fileObj, fprog, content, shown, runs, now, fileFrame>>

\* timestamp = time.time(); ...; f.write(f'{timestamp},{temperature},{humidity}\n')
FileWriteRow ==
    /\ FileStmt("write_row")
    /\ fileObj.mode \in {"w", "a"}
    /\ files' = [files EXCEPT ![fileObj.name].data = @ \o Row(fprog[fpc].arg, Time)]
    /\ fpc' = fpc + 1
    /\ UNCHANGED <<fileObj, fprog, content, shown, runs, now, fileFrame>>

\* The end of the with block closes the file.
FileClose ==
    /\ FileStmt("close")
    /\ fileObj' = NoFile
    /\ fpc' = fpc + 1
    /\ UNCHANGED <<files, fprog, content, shown, runs, now, fileFrame>>

\* content = f.read()
FileRead ==
    /\ FileStmt("read")
    /\ fileObj.mode = "r"
    /\ content' = files[fileObj.name].data
    /\ fpc' = fpc + 1
    /\ UNCHANGED <<files, fileObj, fprog, shown, runs, now, fileFrame>>

\* for line in content.split('\n'): if line: print(line)
FilePrintSplit ==
    /\ FileStmt("print_split")
    /\ shown' = SelectSeq(Split(content), LAMBDA l : l # <<>>)
    /\ fpc' = fpc + 1
    /\ UNCHANGED <<files, fileObj, fprog, content, runs, now, fileFrame>>

\* for line in f: print(line.strip())
FilePrintLines ==
    /\ FileStmt("print_lines")
    /\ fileObj.mode = "r"
    /\ shown' = [k \in 1..Len(FileLines(files[fileObj.name].data)) |->
                    Strip(FileLines(files[fileObj.name].data)[k])]
    /\ fpc' = fpc + 1
    /\ UNCHANGED <<files, fileObj, fprog, content, runs, now, fileFrame>>

\* time.sleep(0.5)
FileSleep ==
    /\ FileStmt("sleep")
    /\ now' = now + fprog[fpc].arg
    /\ fpc' = fpc + 1
    /\ UNCHANGED <<files, fileObj, fprog, content, shown, runs, fileFrame>>

\* The script is started again on the filesystem the last run left.
FileRerun ==
    /\ fpc = Len(fprog) + 1
    /\ runs < MaxRuns
    /\ runs' = runs + 1
    /\ fpc' = 1
    /\ content' = <<>>
    /\ shown' = <<>>
    /\ UNCHANGED <<files, fileObj, fprog, now, fileFrame>>

\* The lines the examples on data.txt are run with.
LineTexts == {<<>>, <<"a">>, <<"b">>}
LineSeqs(line) ==
    UNION {[1..n -> {[text |-> t, line |-> line] : t \in LineTexts}] : n \in 0..MaxLines}

FilePrograms ==
    {DataExamples(ws, as) : ws \in LineSeqs(30), as \in LineSeqs(51)}
    \cup {LogExample, Script07}

FileInit ==
    /\ files = [n \in FileNames |-> Missing]
    /\ fileObj = NoFile
    /\ fprog \in FilePrograms
    /\ fpc = 1
    /\ content = <<>>
    /\ shown = <<>>
    /\ runs = 1
    /\ pinLevel = LOW
    /\ SigIdle
    /\ MainInit(<<>>)
    /\ AdcIdle
    /\ ExIdle
    /\ LateIdle

FileNext ==
    \/ FileOpen
    \/ FileWrite
    \/ FileWriteRow
    \/ FileClose
    \/ FileRead
    \/ FilePrintSplit
    \/ FilePrintLines
    \/ FileSleep
    \/ FileRerun

SpecFile == FileInit /\ [][FileNext]_vars

\* The statement of this line has just been executed.
Done(line) == fpc > 1 /\ fprog[fpc - 1].line = line

\* The texts of the write statements of the script on these lines, in program order.
TextsAt(lines) ==
    LET ws == SelectSeq(fprog, LAMBDA st : st.op = "write" /\ st.line \in lines)
    IN [k \in 1..Len(ws) |-> ws[k].arg]

\* The text read is the text written, with any value in the place of each "{}".
Match(actual, template) ==
    /\ Len(actual) = Len(template)
    /\ \A k \in 1..Len(template) : template[k] = "{}" \/ actual[k] = template[k]

RECURSIVE Flatten(_)
Flatten(ts) == IF ts = <<>> THEN <<>> ELSE Head(ts) \o Flatten(Tail(ts))

(***************************************************************************)
(* C12.  Lines written to data.txt opened with 'w' and lines then appended *)
(* with 'a' are read back exactly: f.read() returns the written lines, the *)
(* line-by-line loop shows the written lines followed by the appended      *)
(* ones, in order, none lost, duplicated or reordered; this also holds in  *)
(* a second run, whose open with 'w' discards what the first run left.     *)
(***************************************************************************)
C12_ReadBackWrittenThenAppended ==
    LET W == TextsAt(30..33)
        A == TextsAt(51..52)
        nonEmpty == SelectSeq(W, LAMBDA t : t # <<NL>>)
    IN /\ Done(40) => Match(content, Flatten(W))
       /\ Done(43) =>
            /\ Len(shown) = Len(nonEmpty)
            /\ \A k \in 1..Len(nonEmpty) : Match(shown[k], Strip(nonEmpty[k]))
       /\ Done(60) =>
            /\ Len(shown) = Len(W) + Len(A)
            /\ \A k \in 1..Len(W \o A) : Match(shown[k], Strip((W \o A)[k]))

\* A second run wrote a, b, appended b, a, and read all four back.
C12_Witness ==
    /\ runs = 2
    /\ Done(60)
    /\ TextsAt(30..33) = <<<<"a", NL>>, <<"b", NL>>>>
    /\ shown = <<<<"a">>, <<"b">>, <<"b">>, <<"a">>>>

\* The statement that writes the header, and the rows written in this run.
HeaderWrite == CHOOSE k \in 1..Len(fprog) : fprog[k].line = 70
RowsWritten == Cardinality({k \in 1..(fpc - 1) : fprog[k].op = "write_row"})

(***************************************************************************)
(* C13.  From the header write on, sensor_log.csv holds the header line    *)
(* followed by one row for each round of the logging loop that has written *)
(* its row, in the order of the rounds; after the loop it holds the header *)
(* and 5 rows.  This holds in a run that finds sensor_log.csv on the       *)
(* filesystem too.                                                         *)
(***************************************************************************)
C13_LogIsHeaderPlusRows ==
    ((\E k \in 1..Len(fprog) : fprog[k].line = 70) /\ fpc > HeaderWrite) =>
        LET ls == FileLines(files["sensor_log.csv"].data)
            temperature == <<"25.0", "25.5", "26.0", "26.5", "27.0">>
            humidity == <<"60", "62", "64", "66", "68">>
        IN /\ Len(ls) = 1 + RowsWritten
           /\ ls[1] = Header
           /\ \A k \in 1..RowsWritten :
                /\ Len(ls[k + 1]) = 8
                /\ ls[k + 1][2] = ","
                /\ ls[k + 1][3] \o ls[k + 1][4] \o ls[k + 1][5] = temperature[k]
                /\ ls[k + 1][6] = ","
                /\ ls[k + 1][7] = humidity[k]
           /\ fpc = Len(fprog) + 1 => Len(ls) = 1 + LogCount

\* A second run has ended, and the log is the header and five rows.
C13_Witness ==
    /\ runs = 2
    /\ fpc = Len(fprog) + 1
    /\ \E k \in 1..Len(fprog) : fprog[k].op = "write_row"
    /\ Len(FileLines(files["sensor_log.csv"].data)) = 1 + LogCount

(***************************************************************************)
(* Part E.  The scripts as statements with their try blocks.               *)
(*                                                                         *)
(* A statement carries its line and the lines of the handlers that an      *)
(* Exception (exc) and a KeyboardInterrupt (kbi) raised in it reach; 0     *)
(* says that nothing in the script catches it.  Jumps name the line of     *)
(* their target.                                                           *)
(***************************************************************************)
MaxIter == 2
MaxBytes == 2
FADE_STEP == 256
DPS368_ADDR == 119

\* A fallback that addresses the sensor where it has just failed.
DpsAddrAgain == DPS368_ADDR

DPS368_ADDR_ALT == 118

X(op, arg, line) == [op |-> op, arg |-> arg, line |-> line, exc |-> 0, kbi |-> 0]
Bus(h, method, addr, reg) == [h |-> h, method |-> method, addr |-> addr, reg |-> reg]

\* try: body  except Exception (at line e) / except KeyboardInterrupt (at line k)
Try(body, e, k) ==
    [j \in DOMAIN body |-> [body[j] EXCEPT !.exc = IF @ = 0 THEN e ELSE @,
                                             !.kbi = IF @ = 0 THEN k ELSE @]]

\* 01_led_blink.py
Script01 ==
    <<X("led", "off", 27), X("print", 0, 29)>>
    \o Try(<<X("sleep", 0, 33), X("led", "toggle", 34), X("goto", 33, 35)>>, 0, 37)
    \o <<X("print", 0, 37), X("led", "off", 38)>>

\* 03_button_input.py
Script03 ==
    <<X("led", "off", 35), X("print", 0, 37)>>
    \o Try(<<X("branch", 46, 43), X("led", "on", 44), X("goto", 48, 45),
             X("led", "off", 46), X("sleep", 0, 48), X("goto", 43, 49)>>, 0, 51)
    \o <<X("print", 0, 51), X("led", "off", 52)>>

\* 04_adc_analog_input.py
Script04 ==
    <<X("construct", "adc", 32), X("print", 0, 34)>>
    \o Try(<<X("skip", 0, 41), X("skip", 0, 44), X("print", 0, 47), X("sleep", 0, 49),
             X("goto", 41, 50)>>, 0, 52)
    \o <<X("print", 0, 52)>>

\* 05_pwm_led_fade.py
Script05 ==
    <<X("construct", "pwm", 35), X("skip", 0, 38), X("print", 0, 40)>>
    \o Try(<<X("skip", 0, 45),
             X("for", [n |-> 65536 \div FADE_STEP, exit |-> 52], 47),
             X("skip", 0, 48), X("sleep", 0, 49), X("goto", 47, 50),
             X("for", [n |-> 65536 \div FADE_STEP, exit |-> 45], 52),
             X("skip", 0, 53), X("sleep", 0, 54), X("goto", 52, 55)>>, 0, 57)
    \o <<X("print", 0, 57), X("deinit", "pwm", 58)>>

\* 06_i2c_communication.py
Script06 ==
    <<X("print", 0, 35)>>
    \o Try(<<X("construct", "i2c", 41), X("print", 0, 42)>>, 44, 0)
    \o <<X("goto", 48, 43), X("report", 0, 44), X("raise", 0, 45),
         X("print", 0, 48), X("busop", Bus("i2c", "scan", 0, 0), 49),
         X("branch", 56, 51), X("print", 0, 52), X("goto", 61, 55),
         X("print", 0, 56), X("skip", 0, 61), X("branch", 82, 63), X("print", 0, 64)>>
    \o Try(<<X("busop", Bus("i2c", "readfrom", 72, 0), 68), X("print", 0, 69)>>, 80, 0)
    \o <<X("goto", 83, 70), X("report", 0, 80), X("goto", 83, 81),
         X("print", 0, 82), X("skip", 0, 83)>>

\* 09_spi_communication.py
Script09 ==
    <<X("print", 0, 47), X("cs", HIGH, 57)>>
    \o Try(<<X("construct", "spi", 61), X("print", 0, 70)>>, 72, 0)
    \o <<X("goto", 86, 71), X("report", 0, 72), X("raise", 0, 73),
         X("skip", 0, 86), X("cs", LOW, 88),
         X("busop", Bus("spi", "write", 0, 0), 90), X("cs", HIGH, 91), X("print", 0, 92),
         X("cs", LOW, 96),
         X("busop", Bus("spi", "readinto", 0, 0), 98), X("cs", HIGH, 99), X("print", 0, 100),
         X("cs", LOW, 104),
         X("busop", Bus("spi", "write_readinto", 0, 0), 107), X("cs", HIGH, 108),
         X("print", 0, 109), X("cs", LOW, 117),
         X("busop", Bus("spi", "write", 0, 0), 119),
         X("busop", Bus("spi", "readinto", 0, 0), 122), X("cs", HIGH, 123), X("print", 0, 124),
         X("cs", LOW, 131),
         X("busop", Bus("spi", "write", 0, 0), 134), X("cs", HIGH, 135), X("print", 0, 136),
         X("cs", LOW, 140),
         X("busop", Bus("spi", "write", 0, 0), 142),
         X("busop", Bus("spi", "readinto", 0, 0), 145), X("cs", HIGH, 146), X("print", 0, 147),
         X("print", 0, 151)>>

\* 10_uart_serial.py; a read of n = 0 is read(), and lines 110-112 read
\* what any() has just reported.
Script10 ==
    Try(<<X("construct", "uart", 52), X("print", 0, 60)>>, 62, 0)
    \o <<X("goto", 66, 61), X("report", 0, 62), X("raise", 0, 63),
         X("print", 0, 66), X("busop", Bus("uart", "write", 0, 0), 68), X("print", 0, 69),
         X("busop", Bus("uart", "write", 0, 0), 74), X("print", 0, 75),
         X("any", 86, 82), X("read", 0, 83), X("print", 0, 84), X("goto", 89, 85),
         X("report", 0, 86),
         X("print", 0, 89), X("read", 10, 91), X("if_data", 95, 92), X("print", 0, 93),
         X("goto", 98, 94), X("report", 0, 95),
         X("print", 0, 98), X("readline", 0, 100), X("if_data", 104, 101),
         X("method", 0, 102), X("goto", 107, 103), X("report", 0, 104),
         X("print", 0, 107), X("for", [n |-> 5, exit |-> 119], 108),
         X("any", 115, 109), X("read", 0, 112), X("print", 0, 113), X("goto", 116, 114),
         X("report", 0, 115), X("sleep", 0, 116), X("goto", 108, 117),
         X("print", 0, 119), X("while", 130, 123), X("any", 128, 124), X("read", 0, 125),
         X("busop", Bus("uart", "write", 0, 0), 126), X("print", 0, 127),
         X("sleep", 0, 128), X("goto", 123, 129), X("print", 0, 130),
         X("print", 0, 133), X("while", 168, 155), X("any", 166, 156), X("read", 1, 157),
         X("method", 0, 157), X("branch", 166, 160),
         X("busop", Bus("uart", "write", 0, 0), 162), X("print", 0, 163),
         X("sleep", 0, 166), X("goto", 155, 167), X("print", 0, 168),
         X("busop", Bus("uart", "write", 0, 0), 187), X("print", 0, 188),
         X("busop", Bus("uart", "write", 0, 0), 192), X("print", 0, 193),
         X("busop", Bus("uart", "write", 0, 0), 197), X("print", 0, 198),
         X("print", 0, 201)>>

\* 11_timer_interrupt.py: the statements of Script11 that arm and release.
Script11X ==
    [j \in DOMAIN Script11 |->
        CASE Script11[j].op = "init" ->
                X("construct", TimerSource(Script11[j].timer), Script11[j].line)
          [] Script11[j].op = "deinit" ->
                X("deinit", TimerSource(Script11[j].timer), Script11[j].line)
          [] Script11[j].op = "irq" -> X("construct", "irq", Script11[j].line)
          [] Script11[j].op = "irq_off" -> X("deinit", "irq", Script11[j].line)
          [] Script11[j].op = "led_off" -> X("led", "off", Script11[j].line)
          [] Script11[j].op = "sleep" -> X("sleep", 0, Script11[j].line)
          [] OTHER -> X("skip", 0, Script11[j].line)]

\* 12_cy8ckit_062s2_ai_sensors.py
Script12 ==
    <<X("print", 0, 42)>>
    \o Try(<<X("construct", "i2c", 47), X("busop", Bus("i2c", "scan", 0, 0), 50),
             X("print", 0, 53)>>, 72, 0)
    \o <<X("goto", 78, 70), X("report", 0, 72), X("print", 0, 73),
         X("print", 0, 78), X("led", "off", 88),
         X("while", 100, 91), X("branch", 97, 92), X("led", "on", 93), X("sleep", 0, 95),
         X("goto", 98, 96), X("led", "off", 97), X("sleep", 0, 98), X("goto", 91, 99),
         X("led", "off", 100), X("print", 0, 115)>>
    \o Try(<<X("busop", Bus("i2c", "readfrom_mem", 104, 0), 134), X("print", 0, 137)>>,
           145, 0)
    \o <<X("goto", 152, 143), X("report", 0, 145), X("print", 0, 146), X("print", 0, 152)>>
    \o Try(<<X("busop", Bus("i2c", "readfrom_mem", DPS368_ADDR, 13), 160),
             X("print", 0, 163)>>, 171, 0)
    \o <<X("goto", 186, 169), X("report", 0, 171)>>
    \o Try(<<X("busop", Bus("i2c", "readfrom_mem", DPS368_ADDR_ALT, 13), 175),
             X("print", 0, 177)>>, 180, 180)
    \o <<X("goto", 186, 178), X("report", 0, 180), X("print", 0, 186)>>

ScriptNames == {"01", "03", "04", "05", "06", "09", "10", "11", "12"}
ScriptOf(n) ==
    CASE n = "01" -> Script01 [] n = "03" -> Script03 [] n = "04" -> Script04
      [] n = "05" -> Script05 [] n = "06" -> Script06 [] n = "09" -> Script09
      [] n = "10" -> Script10 [] n = "11" -> Script11X [] OTHER -> Script12

exOther == <<sigVars, mainVars, now, hwVars, histVars, adcVars, fileVars, cbWake, fadeVars,
             parserVars>>
exFrame == <<pinLevel, csLevel, exOther>>

\* The statement that runs next is one of this operation.
Running(op) == xstatus = "running" /\ xpc <= Len(xprog) /\ xprog[xpc].op = op

\* The statement a jump to this line continues with.
PcOf(line) ==
    CHOOSE k \in 1..Len(xprog) :
        xprog[k].line = line /\ \A j \in 1..(k - 1) : xprog[j].line # line

\* An exception of this kind is raised in the statement that runs: control
\* passes to the handler that encloses it, or the script dies.
Throw(kind) ==
    LET to == IF kind = "kbd" THEN xprog[xpc].kbi ELSE xprog[xpc].exc
    IN /\ cause' = [kind |-> kind, line |-> xprog[xpc].line]
       /\ IF to = 0
          THEN /\ xstatus' = IF kind = "kbd" THEN "killed" ELSE "failed"
               /\ xpc' = xpc
          ELSE /\ xstatus' = xstatus
               /\ xpc' = PcOf(to)

\* Control passes to the next statement.
Pass == xpc' = xpc + 1 /\ UNCHANGED <<xstatus, cause>>

\* A uart.any() that reports a byte whatever the buffer holds.
UartAnyAlways(buffered) == 1

\* uart.any(): the number of bytes waiting.
UartAny(buffered) == buffered

\* uart.read() / uart.read(n): the bytes returned, -1 for None after the timeout.
UartRead(buffered, n) ==
    IF buffered = 0 THEN -1
    ELSE IF n = 0 \/ buffered < n THEN buffered
    ELSE n

\* PWM(...), ADC(...), I2C(...), SPI(...), UART(...), Timer(i).init(...), pin.irq(handler=...):
\* the constructor of a bus may raise.
XConstruct ==
    /\ Running("construct")
    /\ \/ /\ handles' = [handles EXCEPT ![xprog[xpc].arg] = "live"]
          /\ Pass
       \/ /\ xprog[xpc].arg \in {"i2c", "spi", "uart"}
          /\ handles' = [handles EXCEPT ![xprog[xpc].arg] = "failed"]
          /\ Throw("construct")
    /\ UNCHANGED <<xname, xprog, reports, ioLog, ledOp, rx, data, iter, kbdAt, arrived, exFrame>>

\* x.deinit(), pin.irq(handler=None)
XDeinit ==
    /\ Running("deinit")
    /\ handles' = [handles EXCEPT ![xprog[xpc].arg] = "released"]
    /\ Pass
    /\ UNCHANGED <<xname, xprog, reports, ioLog, ledOp, rx, data, iter, kbdAt, arrived, exFrame>>

\* A scan, read, write or transfer on a bus: a NameError when the name was
\* never bound, otherwise an attempt on the bus that succeeds or raises.
XBusOp ==
    /\ Running("busop")
    /\ \/ /\ handles[xprog[xpc].arg.h] # "live"
          /\ Throw("name")
          /\ UNCHANGED ioLog
       \/ /\ handles[xprog[xpc].arg.h] = "live"
          /\ \E ok \in BOOLEAN :
                /\ ioLog' = Append(ioLog, [line |-> xprog[xpc].line, op |-> xprog[xpc].arg,
                                           ok |-> ok])
                /\ IF ok THEN Pass ELSE Throw("comm")
    /\ UNCHANGED <<xname, xprog, handles, reports, ledOp, rx, data, iter, kbdAt, arrived,
                   exFrame>>

\* print of an error or of a no-data message
XReport ==
    /\ Running("report")
    /\ reports' = Append(reports, xprog[xpc].line)
    /\ Pass
    /\ UNCHANGED <<xname, xprog, handles, ioLog, ledOp, rx, data, iter, kbdAt, arrived, exFrame>>

\* raise: the exception being handled goes on to the enclosing handler.
XRaise ==
    /\ Running("raise")
    /\ Throw(cause.kind)
    /\ UNCHANGED <<xname, xprog, handles, reports, ioLog, ledOp, rx, data, iter, kbdAt, arrived,
                   exFrame>>

\* A Pin whose off() drives 1, as for an LED wired active-low.
PinLevelAfterOffHigh(op, level) ==
    CASE op = "on" -> LOW
      [] op = "off" -> HIGH
      [] OTHER -> Invert(level)

\* Pin.on() drives 1, Pin.off() drives 0, Pin.toggle() inverts the level.
PinLevelAfter(op, level) ==
    CASE op = "on" -> HIGH
      [] op = "off" -> LOW
      [] OTHER -> Invert(level)

\* led.on(), led.off(), led.toggle()
XLed ==
    /\ Running("led")
    /\ ledOp' = xprog[xpc].arg
    /\ pinLevel' = PinLevelAfter(xprog[xpc].arg, pinLevel)
    /\ Pass
    /\ UNCHANGED <<xname, xprog, handles, reports, ioLog, rx, data, iter, kbdAt, arrived,
                   csLevel, exOther>>

\* cs.value(level) on the chip-select pin (line 57, select(), deselect()).
XCs ==
    /\ Running("cs")
    /\ csLevel' = xprog[xpc].arg
    /\ Pass
    /\ UNCHANGED <<xname, xprog, handles, reports, ioLog, ledOp, rx, data, iter, kbdAt, arrived,
                   pinLevel, exOther>>

\* Any other print, a sleep, and the statements that touch none of the above.
XSkip ==
    /\ Running("print") \/ Running("sleep") \/ Running("skip")
    /\ Pass
    /\ UNCHANGED <<xname, xprog, handles, reports, ioLog, ledOp, rx, data, iter, kbdAt, arrived,
                   exFrame>>

\* The end of a loop body or of an if branch.
XGoto ==
    /\ Running("goto")
    /\ xpc' = PcOf(xprog[xpc].arg)
    /\ UNCHANGED <<xname, xprog, xstatus, handles, reports, ioLog, ledOp, rx, data, iter, cause,
                   kbdAt, arrived, exFrame>>

\* if on a value read from the hardware: either branch.
XBranch ==
    /\ Running("branch")
    /\ xpc' \in {xpc + 1, PcOf(xprog[xpc].arg)}
    /\ UNCHANGED <<xname, xprog, xstatus, handles, reports, ioLog, ledOp, rx, data, iter, cause,
                   kbdAt, arrived, exFrame>>

\* for ... in range(...): n rounds.
XFor ==
    /\ Running("for")
    /\ IF iter < xprog[xpc].arg.n
       THEN iter' = iter + 1 /\ xpc' = xpc + 1
       ELSE iter' = 0 /\ xpc' = PcOf(xprog[xpc].arg.exit)
    /\ UNCHANGED <<xname, xprog, xstatus, handles, reports, ioLog, ledOp, rx, data, cause, kbdAt,
                   arrived, exFrame>>

\* while time.time() - start_time < ...: the loop ends after some round.
XWhile ==
    /\ Running("while")
    /\ \/ iter < MaxIter /\ iter' = iter + 1 /\ xpc' = xpc + 1
       \/ iter' = 0 /\ xpc' = PcOf(xprog[xpc].arg)
    /\ UNCHANGED <<xname, xprog, xstatus, handles, reports, ioLog, ledOp, rx, data, cause, kbdAt,
                   arrived, exFrame>>

\* if uart.any():
XAny ==
    /\ Running("any")
    /\ xpc' = IF UartAny(rx) > 0 THEN xpc + 1 ELSE PcOf(xprog[xpc].arg)
    /\ UNCHANGED <<xname, xprog, xstatus, handles, reports, ioLog, ledOp, rx, data, iter, cause,
                   kbdAt, arrived, exFrame>>

\* data = uart.read() / uart.read(n)
XRead ==
    /\ Running("read")
    /\ data' = UartRead(rx, xprog[xpc].arg)
    /\ rx' = IF data' = -1 THEN rx ELSE rx - data'
    /\ Pass
    /\ UNCHANGED <<xname, xprog, handles, reports, ioLog, ledOp, iter, kbdAt, arrived, exFrame>>

\* line = uart.readline(): up to the first newline, or what came before the timeout.
XReadline ==
    /\ Running("readline")
    /\ \/ rx = 0 /\ data' = -1
       \/ rx > 0 /\ data' \in 1..rx
    /\ rx' = IF data' = -1 THEN rx ELSE rx - data'
    /\ Pass
    /\ UNCHANGED <<xname, xprog, handles, reports, ioLog, ledOp, iter, kbdAt, arrived, exFrame>>

\* if data: / if line:
XIfData ==
    /\ Running("if_data")
    /\ xpc' = IF data > 0 THEN xpc + 1 ELSE PcOf(xprog[xpc].arg)
    /\ UNCHANGED <<xname, xprog, xstatus, handles, reports, ioLog, ledOp, rx, data, iter, cause,
                   kbdAt, arrived, exFrame>>

\* line.decode('utf-8'), uart.read(1).decode('utf-8'): an AttributeError on None.
XMethod ==
    /\ Running("method")
    /\ IF data = -1 THEN Throw("attr") ELSE Pass
    /\ UNCHANGED <<xname, xprog, handles, reports, ioLog, ledOp, rx, data, iter, kbdAt, arrived,
                   exFrame>>

\* The last statement has run.
XEnd ==
    /\ xstatus = "running"
    /\ xpc = Len(xprog) + 1
    /\ xstatus' = "ended"
    /\ UNCHANGED <<xname, xprog, xpc, handles, reports, ioLog, ledOp, rx, data, iter, cause,
                   kbdAt, arrived, exFrame>>

\* Ctrl+C while a statement of the script is about to run.
KeyboardInterrupt ==
    /\ xstatus = "running"
    /\ xpc <= Len(xprog)
    /\ kbdAt = 0
    /\ kbdAt' = xprog[xpc].line
    /\ Throw("kbd")
    /\ UNCHANGED <<xname, xprog, handles, reports, ioLog, ledOp, rx, data, iter, arrived,
                   exFrame>>

\* A byte arrives on the RX pin.
Arrive ==
    /\ xstatus = "running"
    /\ handles["uart"] = "live"
    /\ arrived < MaxBytes
    /\ rx' = rx + 1
    /\ arrived' = arrived + 1
    /\ UNCHANGED <<xname, xprog, xpc, xstatus, handles, reports, ioLog, ledOp, data, iter, cause,
                   kbdAt, exFrame>>

ScriptsInit ==
    /\ \E n \in ScriptNames : ExInit(n, ScriptOf(n))
    /\ pinLevel = LOW
    /\ SigIdle
    /\ MainInit(<<>>)
    /\ AdcIdle
    /\ FileIdle
    /\ LateIdle

ScriptsNext ==
    \/ XConstruct
    \/ XDeinit
    \/ XBusOp
    \/ XReport
    \/ XRaise
    \/ XLed
    \/ XCs
    \/ XSkip
    \/ XGoto
    \/ XBranch
    \/ XFor
    \/ XWhile
    \/ XAny
    \/ XRead
    \/ XReadline
    \/ XIfData
    \/ XMethod
    \/ XEnd
    \/ KeyboardInterrupt
    \/ Arrive

SpecScripts == ScriptsInit /\ [][ScriptsNext]_vars

(***************************************************************************)
(* Part F.  05_pwm_led_fade.py: the values the fade loop passes to         *)
(* duty_u16.                                                               *)
(***************************************************************************)
\* lines 47 and 52: the stop of the first range, the start of the second.
FadeInStop == 65536
FadeOutStart == 65535

\* A range that includes its stop value when a step lands on it.
PyRangeLenInclusive(start, stop, step) ==
    IF step > 0
    THEN (IF stop < start THEN 0 ELSE (stop - start) \div step + 1)
    ELSE (IF start < stop THEN 0 ELSE (start - stop) \div (-step) + 1)

\* len(range(start, stop, step)): the values are start + k * step as long
\* as they are below stop (step > 0) or above stop (step < 0).
PyRangeLen(start, stop, step) ==
    IF step > 0
    THEN (IF stop <= start THEN 0 ELSE (stop - start + step - 1) \div step)
    ELSE (IF start <= stop THEN 0 ELSE (start - stop - step - 1) \div (-step))

\* range(start, stop, step)[k]
PyRangeAt(start, step, k) == start + k * step

fadeFrame ==
    <<pinLevel, sigVars, mainVars, now, hwVars, histVars, adcVars, fileVars, exVars, cbWake,
      csLevel, parserVars>>

\* pwm_led.duty_u16(d); time.sleep_ms(FADE_DELAY)
DutyU16(d) ==
    /\ prevDuty' = duty
    /\ duty' = d
    /\ dutyIdx' = dutyIdx + 1

\* lines 47-49: an iteration of the fade-in loop.
FadeInStep ==
    /\ fadeAt = "in"
    /\ dutyIdx < PyRangeLen(0, FadeInStop, FADE_STEP)
    /\ DutyU16(PyRangeAt(0, FADE_STEP, dutyIdx))
    /\ UNCHANGED <<fadeAt, fadeFrame>>

\* line 47 with the range exhausted: on to the fade-out loop.
FadeInDone ==
    /\ fadeAt = "in"
    /\ dutyIdx = PyRangeLen(0, FadeInStop, FADE_STEP)
    /\ fadeAt' = "out"
    /\ dutyIdx' = 0
    /\ UNCHANGED <<duty, prevDuty, fadeFrame>>

\* lines 52-54: an iteration of the fade-out loop.
FadeOutStep ==
    /\ fadeAt = "out"
    /\ dutyIdx < PyRangeLen(FadeOutStart, -1, -FADE_STEP)
    /\ DutyU16(PyRangeAt(FadeOutStart, -FADE_STEP, dutyIdx))
    /\ UNCHANGED <<fadeAt, fadeFrame>>

\* line 52 with the range exhausted: the next round of while True.
FadeOutDone ==
    /\ fadeAt = "out"
    /\ dutyIdx = PyRangeLen(FadeOutStart, -1, -FADE_STEP)
    /\ fadeAt' = "in"
    /\ dutyIdx' = 0
    /\ UNCHANGED <<duty, prevDuty, fadeFrame>>

\* lines 56-58: Ctrl+C ends the loop; deinit() passes no duty value.
FadeStop ==
    /\ fadeAt \in {"in", "out"}
    /\ fadeAt' = "stopped"
    /\ UNCHANGED <<dutyIdx, duty, prevDuty, fadeFrame>>

FadeInit ==
    /\ fadeAt = "in"
    /\ dutyIdx = 0
    /\ duty = -1
    /\ prevDuty = -1
    /\ pinLevel = LOW
    /\ SigIdle
    /\ MainInit(<<>>)
    /\ AdcIdle
    /\ FileIdle
    /\ ExIdle
    /\ DebounceIdle
    /\ CsIdle
    /\ ParserIdle

FadeNext ==
    \/ FadeInStep
    \/ FadeInDone
    \/ FadeOutStep
    \/ FadeOutDone
    \/ FadeStop

SpecFade == FadeInit /\ [][FadeNext]_vars

(***************************************************************************)
(* Part G.  10_uart_serial.py, Example 8: the command parser.  A text is   *)
(* the sequence of its characters.                                         *)
(***************************************************************************)
LED_ON == <<"L", "E", "D", "_", "O", "N">>
LED_OFF == <<"L", "E", "D", "_", "O", "F", "F">>
STATUS == <<"S", "T", "A", "T", "U", "S">>

\* The letters of the texts of the model, in lower and in upper case.
LowerCase == <<"a", "d", "e", "f", "l", "n", "o", "r", "s", "t", "u">>
UpperCase == <<"A", "D", "E", "F", "L", "N", "O", "R", "S", "T", "U">>

\* The characters str.strip() removes, of those the model uses.
Whitespace == {" ", "\t", "\n", "\r"}

\* str.upper(), character by character.
UpperChar(c) ==
    IF \E i \in DOMAIN LowerCase : LowerCase[i] = c
    THEN UpperCase[CHOOSE i \in DOMAIN LowerCase : LowerCase[i] = c]
    ELSE c

StrUpper(t) == [i \in DOMAIN t |-> UpperChar(t[i])]

\* str.strip(): the text without the whitespace at its two ends.
RECURSIVE StrLStrip(_)
StrLStrip(t) == IF t # <<>> /\ Head(t) \in Whitespace THEN StrLStrip(Tail(t)) ELSE t

RECURSIVE StrRStrip(_)
StrRStrip(t) ==
    IF t # <<>> /\ t[Len(t)] \in Whitespace THEN StrRStrip(SubSeq(t, 1, Len(t) - 1)) ELSE t

StrStrip(t) == StrRStrip(StrLStrip(t))

\* The responses: a response is the sequence of the pieces it is formatted
\* from.
LedOnResponse == <<"LED turned ON", NL>>
LedOffResponse == <<"LED turned OFF", NL>>
StatusResponse == <<"System OK", NL>>
UnknownResponse(cmd) == <<"Unknown command: ">> \o cmd \o <<NL>>

\* A process_command that compares the text as received.
process_command_as_received(cmd) ==
    CASE cmd = LED_ON -> LedOnResponse
      [] cmd = LED_OFF -> LedOffResponse
      [] cmd = STATUS -> StatusResponse
      [] OTHER -> UnknownResponse(cmd)

\* lines 136-149
process_command(cmd) ==
    LET c == StrUpper(StrStrip(cmd)) IN
        CASE c = LED_ON -> LedOnResponse
          [] c = LED_OFF -> LedOffResponse
          [] c = STATUS -> StatusResponse
          [] OTHER -> UnknownResponse(c)

\* line 160
Terminators == {"\n", "\r"}

parserFrame ==
    <<pinLevel, sigVars, mainVars, now, hwVars, histVars, adcVars, fileVars, exVars, cbWake,
      csLevel, fadeVars>>

\* The next character of the peer arrives in the receive buffer of the UART.
PeerSend ==
    /\ peer # <<>>
    /\ Len(uartRx) < MaxBytes
    /\ uartRx' = Append(uartRx, Head(peer))
    /\ peer' = Tail(peer)
    /\ UNCHANGED <<sentLines, buffer, responses, consumed, parserOn, parserFrame>>

\* lines 155-166, a round of the loop in which uart.any() reports a
\* character: read it, add it to the buffer, and on a terminator answer and
\* empty the buffer.  (A round in which uart.any() reports none changes
\* nothing.)
ParserRead ==
    /\ parserOn
    /\ uartRx # <<>>
    /\ LET char == Head(uartRx)
           filled == Append(buffer, char)
       IN  /\ uartRx' = Tail(uartRx)
           /\ consumed' = Append(consumed, char)
           /\ IF char \in Terminators
              THEN /\ responses' = Append(responses, process_command(filled))
                   /\ buffer' = <<>>
              ELSE /\ responses' = responses
                   /\ buffer' = filled
    /\ UNCHANGED <<sentLines, peer, parserOn, parserFrame>>

\* line 155: the 10 seconds are over.
ParserStop ==
    /\ parserOn
    /\ parserOn' = FALSE
    /\ UNCHANGED <<sentLines, peer, uartRx, buffer, responses, consumed, parserFrame>>

\* The command lines a peer sends: a word in upper case, in lower case, or
\* with blanks around it, ended by LF, CR or CR LF.
OtherWord == <<"R", "E", "S", "E", "T">>
Words == {LED_ON, LED_OFF, STATUS, OtherWord, <<>>}
Forms == {"upper", "lower", "padded"}
Endings == {<<"\n">>, <<"\r">>, <<"\r", "\n">>}
CommandLines == [word : Words, form : Forms, ending : Endings]

LowerChar(c) ==
    IF \E i \in DOMAIN UpperCase : UpperCase[i] = c
    THEN LowerCase[CHOOSE i \in DOMAIN UpperCase : UpperCase[i] = c]
    ELSE c

\* The characters of a command line without its ending, and with it.
LineText(l) ==
    CASE l.form = "upper" -> l.word
      [] l.form = "lower" -> [i \in DOMAIN l.word |-> LowerChar(l.word[i])]
      [] OTHER -> <<" ">> \o l.word \o <<" ">>

RECURSIVE Characters(_)
Characters(ls) ==
    IF ls = <<>> THEN <<>> ELSE LineText(Head(ls)) \o Head(ls).ending \o Characters(Tail(ls))

ParserInit ==
    /\ sentLines \in UNION {[1..n -> CommandLines] : n \in 1..MaxCmds}
    /\ peer = Characters(sentLines)
    /\ uartRx = <<>>
    /\ buffer = <<>>
    /\ responses = <<>>
    /\ consumed = <<>>
    /\ parserOn = TRUE
    /\ pinLevel = LOW
    /\ SigIdle
    /\ MainInit(<<>>)
    /\ AdcIdle
    /\ FileIdle
    /\ ExIdle
    /\ DebounceIdle
    /\ CsIdle
    /\ FadeIdle

ParserNext ==
    \/ PeerSend
    \/ ParserRead
    \/ ParserStop

SpecParser == ParserInit /\ [][ParserNext]_vars

(***************************************************************************)
(* C14.  When a script has exited, at its normal end or on a keyboard      *)
(* interrupt, no peripheral it acquired (PWM, ADC, I2C, SPI, UART, Timer,  *)
(* pin interrupt) is still live: each has been deinitialized or disabled.  *)
(***************************************************************************)
C14_HandlesReleasedAtExit ==
    xstatus \in {"ended", "killed"} => \A h \in Handles : handles[h] # "live"

(***************************************************************************)
(* C15.  After a keyboard interrupt, arriving at any statement, the script *)
(* exits with the hardware safe: in 01 and 03 the LED has not been left    *)
(* on (its last operation is not on() or toggle()), in 05 the PWM is not   *)
(* live, in 11 no timer and no pin interrupt is live.                      *)
(***************************************************************************)
C15_SafeAfterKeyboardInterrupt ==
    (kbdAt # 0 /\ xstatus \in {"ended", "killed"}) =>
        /\ xname \in {"01", "03"} => ledOp \notin {"on", "toggle"}
        /\ xname = "05" => handles["pwm"] # "live"
        /\ xname = "11" => \A h \in Sources : handles[h] # "live"

(***************************************************************************)
(* C16.  Once the constructor of a bus peripheral (I2C, SPI, UART) has     *)
(* raised, the error is printed once and re-raised: the script does not    *)
(* reach its end, prints no second error, and comes to no statement that   *)
(* operates on the bus; in every script, 12 included.                      *)
(***************************************************************************)
C16_ConstructFailureIsFatal ==
    \A h \in {"i2c", "spi", "uart"} :
        handles[h] = "failed" =>
            /\ Len(reports) <= 1
            /\ xstatus = "failed" => Len(reports) = 1
            /\ xstatus # "ended"
            /\ ~Running("busop")

(***************************************************************************)
(* C17.  An exception raised by a read, write or transfer on an            *)
(* established bus never terminates the script: it is caught at that       *)
(* operation and the script goes on.                                       *)
(***************************************************************************)
C17_CommFailureNeverFatal ==
    cause.kind = "comm" => xstatus # "failed"

\* Two bus operations are the same read or write: same bus, method and register.
SameOp(a, b) == a.h = b.h /\ a.method = b.method /\ a.reg = b.reg

(***************************************************************************)
(* C18 as stated.  After a bus operation has failed, the script issues no  *)
(* further attempt of that read or write.                                  *)
(***************************************************************************)
C18_NoFurtherAttemptAfterFailure ==
    \A i, j \in 1..Len(ioLog) :
        (i < j /\ ~ioLog[i].ok) => ~SameOp(ioLog[i].op, ioLog[j].op)

(***************************************************************************)
(* C18 amended.  After a bus operation has failed, the script issues no    *)
(* further attempt of that read or write at the same address; the only     *)
(* further attempt at all is the DPS368 product-ID read of line 175 in 12, *)
(* issued once, at the alternative address, directly after the read of     *)
(* line 160 has failed.                                                    *)
(***************************************************************************)
C18_OnlyAlternativeAddressRetried ==
    \A i, j \in 1..Len(ioLog) :
        (i < j /\ ~ioLog[i].ok /\ SameOp(ioLog[i].op, ioLog[j].op)) =>
            /\ ioLog[i].op.addr # ioLog[j].op.addr
            /\ xname = "12"
            /\ ioLog[i].line = 160
            /\ ioLog[j].line = 175
            /\ j = i + 1

\* The read at 0x77 has failed and the read at 0x76 has been issued.
C18_Witness ==
    \E i \in 1..Len(ioLog) :
        /\ i < Len(ioLog)
        /\ ioLog[i].line = 160
        /\ ~ioLog[i].ok
        /\ ioLog[i + 1].line = 175
        /\ ioLog[i + 1].op.addr = DPS368_ADDR_ALT

(***************************************************************************)
(* C19.  No method is ever called on a None read result (no                *)
(* AttributeError is raised, and a decode is reached only with data), and  *)
(* when no byte arrives 10_uart_serial.py prints the no-data message of    *)
(* Example 3, 4 and 5 and of each of the 5 checks of Example 6, and runs   *)
(* on to its end.                                                          *)
(***************************************************************************)
C19_NoDataIsNotAnException ==
    /\ cause.kind # "attr"
    /\ Running("method") => data # -1
    /\ (xname = "10" /\ xstatus = "ended" /\ arrived = 0) =>
            reports = <<86, 95, 104, 115, 115, 115, 115, 115>>

\* The UART script has run to its end without a byte arriving.
C19_Witness ==
    /\ xname = "10"
    /\ xstatus = "ended"
    /\ arrived = 0
    /\ Len(reports) = 8
    /\ Len(ioLog) = 5

(***************************************************************************)
(* C20.  In Example 5 of 11_timer_interrupt.py (trigger IRQ_FALLING |      *)
(* IRQ_RISING) every falling edge calls button_press_callback and every    *)
(* rising edge button_release_callback, however fast the edges follow each *)
(* other: at the print of line 178 press_count is the number of falling    *)
(* edges and release_count the number of rising edges since the interrupt  *)
(* was enabled, and the two differ by at most 1.                           *)
(***************************************************************************)
C20_PressPerFallingReleasePerRising ==
    out.line = 178 =>
        /\ out.vals = <<globals["press_count"], globals["release_count"]>>
        /\ out.vals = <<edgesSeen["falling"], edgesSeen["rising"]>>
        /\ out.vals[1] - out.vals[2] \in {-1, 0, 1}

(***************************************************************************)
(* debounced_button_handler.                                               *)
(***************************************************************************)
\* debounced_button_handler is in progress; the statement it executes next.
Debouncing == running # <<>> /\ Top.cb = "debounced_button_handler"
HandlerPc == Top.pc

\* The LED toggles the handler has done.
HandlerToggles ==
    IF Debouncing /\ HandlerPc <= 2 THEN started["irq"] - 1 ELSE started["irq"]

C22_WatchdogFedThenFires ==
    /\ started["timer2"] <= 1
    /\ ~Past(237) =>
          /\ started["timer2"] = 0
          /\ globals["timeout_occurred"] = FALSE
    /\ Past(238) =>
          /\ started["timer2"] = 1
          /\ completed["timer2"] = 1
          /\ globals["timeout_occurred"] = TRUE
    /\ Past(240) => out.line = 241

\* C22 witness: the script has printed 'Timeout was detected and handled'
\* after the one firing of the watchdog, which was fed three times before.
C22_Witness ==
    /\ Past(240)
    /\ out.line = 241
    /\ started["timer2"] = 1
    /\ globals["timeout_occurred"] = TRUE
    /\ now = Run1 + Run2 + Run3 + Run4 + Run5 + LoopCount6 * LoopSleep6
             + WorkCount7 * WorkSleep7 + Run7

\* The timer the main sequence calls init() on in this step, -1 if none.
InitIssuedOn ==
    IF running = <<>> /\ pc <= Len(prog) /\ pc' = pc + 1 /\ prog[pc].op = "init"
    THEN prog[pc].timer ELSE -1

\* C23: every init() of the script is issued on a timer that is Stopped
\* (never armed, deinitialized, or a ONE_SHOT that has fired), and a timer
\* carries the one registration of its last init() while armed and none
\* while stopped.
C23_NoDoubleArm ==
    /\ [](\A i \in TimerIds :
            /\ ~timers[i].armed => timers[i] = StoppedTimer
            /\ timers[i].armed => lastCall[TimerSource(i)] = "init")
    /\ [][ \A i \in TimerIds :
             InitIssuedOn = i =>
                /\ timers[i] = StoppedTimer
                /\ timers'[i].armed
                /\ timers'[i].period = prog[pc].period
                /\ timers'[i].mode = prog[pc].mode
                /\ timers'[i].cb = prog[pc].cb
         ]_vars

\* C23 witness: timer 0, used before by Examples 1 and 3, is armed again by
\* Example 6, and timer 1, used by Examples 2 and 3, is stopped.
C23_Witness ==
    /\ timers[0].armed
    /\ timers[0].cb = "blink_callback"
    /\ started["timer0"] > 0
    /\ started["timer1"] > 1
    /\ timers[1] = StoppedTimer
    /\ timers[2] = StoppedTimer
    /\ pc <= Len(prog)
    /\ prog[pc].line = 199

\* The main sequence is about to execute the statement of this line.
At(line) == pc <= Len(prog) /\ prog[pc].line = line

\* Nothing is armed and no callback is in progress or waiting.
AllStopped ==
    /\ \A i \in TimerIds : timers[i] = StoppedTimer
    /\ irq = IrqDisabled
    /\ irqPending = 0
    /\ running = <<>>

\* The ends of Examples 1, 2, 3, 4, 6: the first statement of the next
\* example is next.  The end of Example 7 is the end of the script.
EndOfExample == At(72) \/ At(86) \/ At(135) \/ At(151) \/ At(211)
EndOfExample5 == At(192)
EndOfScript == pc > Len(prog)

\* C24 as stated: at the end of the script and at the end of every example
\* all timers are Stopped, the interrupt is Disabled and the LED pin is as
\* led.off() leaves it.
C24_QuiescentAfterEveryExample ==
    (EndOfScript \/ EndOfExample \/ EndOfExample5) => (AllStopped /\ pinLevel = LOW)

\* C24, amended: as stated at the end of the script and of Examples 1, 2, 3,
\* 4 and 6; at the end of Example 5, which has no led.off(), all timers are
\* Stopped and the interrupt is Disabled; while nothing is armed the LED
\* pin changes only by a led.off() of the main sequence.
C24_QuiescentExceptLedAfterExample5 ==
    /\ []((EndOfScript \/ EndOfExample) => (AllStopped /\ pinLevel = LOW))
    /\ [](EndOfExample5 => AllStopped)
    /\ [][ (AllStopped /\ pinLevel' # pinLevel) =>
              (pc <= Len(prog) /\ prog[pc].op = "led_off" /\ pc' = pc + 1 /\ pinLevel' = LOW)
         ]_vars

\* C24 witness: Example 5 has ended with the LED left on by
\* button_press_callback, everything else stopped.
C24_Witness ==
    /\ EndOfExample5
    /\ AllStopped
    /\ pinLevel = HIGH
    /\ globals["press_count"] > 0

\* The script has reached its end after all seven examples.
C24_WitnessEnd ==
    /\ EndOfScript
    /\ AllStopped
    /\ pinLevel = LOW
    /\ started["timer2"] = 1
    /\ started["irq"] > 0

\* Example 3 is asleep at line 110 with both timers armed since line 107.
InExample3 == At(110) /\ timers[0].armed /\ timers[1].armed

\* No callback is in progress and no armed timer is due.
Settled == running = <<>> /\ \A i \in TimerIds : timers[i].armed => timers[i].due > now

\* The time since lines 106-107 armed the timers of Example 3.
SinceArmed3 == now - (Run1 + Run2)

\* C25 as stated: whenever the callbacks due in Example 3 have all run, the
\* counts and the LED level are those the elapsed time determines, whichever
\* callback ran first at a coinciding instant, and the final counts are
\* those of a run in which at every coinciding instant both callbacks ran
\* or neither did.
C25_OrderNeverMatters ==
    /\ (InExample3 /\ Settled) =>
          /\ globals["fast_count"] = SinceArmed3 \div FastPeriod
          /\ globals["slow_count"] = SinceArmed3 \div SlowPeriod
          /\ pinLevel = (IF globals["slow_count"] % 2 = 0 THEN LOW ELSE HIGH)
    /\ out.line = 116 =>
          out.vals[1] \div (SlowPeriod \div FastPeriod) = out.vals[2]

\* C25, amended: as stated for the counts and the LED level after both
\* callbacks have run; the final counts are 25 or 24 and 5 or 4 in any
\* combination, since at 5000 ms the deinit() calls may come between the
\* two callbacks.
C25_OrderMattersOnlyAtDeinit ==
    /\ (InExample3 /\ Settled) =>
          /\ globals["fast_count"] = SinceArmed3 \div FastPeriod
          /\ globals["slow_count"] = SinceArmed3 \div SlowPeriod
          /\ pinLevel = (IF globals["slow_count"] % 2 = 0 THEN LOW ELSE HIGH)
    /\ out.line = 116 =>
          /\ out.vals[1] \in {Run3 \div FastPeriod - 1, Run3 \div FastPeriod}
          /\ out.vals[2] \in {Run3 \div SlowPeriod - 1, Run3 \div SlowPeriod}

\* C25 witness: at 1000 ms of Example 3 slow_timer_callback is in progress
\* while the fast timer, due at the same instant, has not run yet.
C25_Witness ==
    /\ InExample3
    /\ SinceArmed3 = SlowPeriod
    /\ running # <<>>
    /\ Top.cb = "slow_timer_callback"
    /\ timers[0].due = now
    /\ globals["fast_count"] = 4

\* The other order: fast_timer_callback is in progress, the slow timer is due.
C25_FastFirst ==
    /\ InExample3
    /\ SinceArmed3 = SlowPeriod
    /\ running # <<>>
    /\ Top.cb = "fast_timer_callback"
    /\ timers[1].due = now
    /\ globals["slow_count"] = 0

\* The final counts after a deinit between the two callbacks at 5000 ms.
C25_FinalSplit == out.line = 116 /\ out.vals = <<25, 4>>

\* C26: in Example 6 the main sequence completes every iteration of its
\* loop and executes blink_timer.deinit() (line 202), however the firings of
\* the blink timer interleave with it, and a statement of blink_callback
\* changes nothing but the level of the LED pin.
C26_MainLoopCompletes ==
    /\ <>(Past(202) /\ timers[0] = StoppedTimer)
    /\ [][ (running # <<>> /\ Top.cb = "blink_callback" /\ running' # running) =>
              /\ pinLevel' # pinLevel => (Top.pc = 1 /\ pinLevel' = Invert(pinLevel))
              /\ UNCHANGED <<mainVars, now, timers, irq, btn, irqPending>>
         ]_vars

\* C26 witness: the loop of the script has done its 10 iterations of 500 ms
\* and line 202 is next, after at least 24 firings of the blink timer.
C26_Witness ==
    /\ At(202)
    /\ InitOf(192).period = BlinkPeriod
    /\ now = LoopCount6 * LoopSleep6
    /\ started["timer0"] >= (LoopCount6 * LoopSleep6) \div BlinkPeriod - 1
    /\ completed["timer0"] = started["timer0"]
    /\ timers[0].armed

(***************************************************************************)
(* The LED pin of 01_led_blink.py and the chip select of                   *)
(* 09_spi_communication.py.                                                *)
(***************************************************************************)
\* C27: in 01_led_blink.py, after the led.off() of the initialization (line
\* 27) and after the led.off() of the KeyboardInterrupt cleanup (line 38),
\* the LED pin is at level HIGH (the active-low LED is dark).
C27_LedPinHighAfterOff ==
    (xname = "01" /\ ledOp = "off") => pinLevel = HIGH

\* What 01_led_blink.py does: after either led.off() the pin is LOW.
C27_LedPinLowAfterOff ==
    (xname = "01" /\ ledOp = "off") => pinLevel = LOW

\* 01_led_blink.py has been stopped by Ctrl+C after a toggle and has run
\* the led.off() of line 38.
C27_AfterCleanup ==
    /\ xname = "01"
    /\ xstatus = "ended"
    /\ kbdAt = 33
    /\ ledOp = "off"
    /\ pinLevel = LOW

\* Line 57 of 09_spi_communication.py has driven the chip-select pin.
CsDriven == xname = "09" /\ xpc > PcOf(57)

\* A transfer is issued only while the chip select is LOW, every select()
\* and deselect() changes the level of the pin, and the pin is HIGH at
\* every print between the examples.
CsAroundTransfers ==
    /\ [](CsDriven =>
            /\ Running("busop") => csLevel = LOW
            /\ Running("print") => csLevel = HIGH
            /\ (ioLog = <<>> /\ xstatus = "running") =>
                   (csLevel = HIGH \/ Running("busop")))
    /\ [][ xname = "09" =>
             /\ ioLog' # ioLog => csLevel = LOW
             /\ (CsDriven /\ Running("cs") /\ xpc' = xpc + 1) => csLevel' = Invert(csLevel)
             /\ csLevel' # csLevel => (Running("cs") /\ csLevel' = xprog[xpc].arg)
         ]_vars

\* C28: in 09_spi_communication.py every transfer is executed with the chip
\* select LOW, select() and deselect() alternate starting with select(), and
\* the chip select is HIGH before the first transfer, between two examples
\* and when the script has ended.
C28_ChipSelectDiscipline ==
    /\ CsAroundTransfers
    /\ []((CsDriven /\ xstatus # "running") => csLevel = HIGH)

\* 09_spi_communication.py has reached its end after its eight transfers.
C28_NormalEnd ==
    /\ xname = "09"
    /\ xstatus = "ended"
    /\ Len(ioLog) = 8
    /\ csLevel = HIGH

\* 09_spi_communication.py has died in spi.write() of line 90 with the
\* device selected.
C28_DiesSelected ==
    /\ xname = "09"
    /\ xstatus = "failed"
    /\ cause = [kind |-> "comm", line |-> 90]
    /\ csLevel = LOW

(***************************************************************************)
(* The fade loop.                                                          *)
(***************************************************************************)
Abs(x) == IF x < 0 THEN -x ELSE x

\* C29: every value passed to duty_u16 lies in 0..65535, and two
\* consecutive values differ by at most FADE_STEP, also at the turn from
\* fade-in to fade-out and from fade-out to the next fade-in.
C29_DutyInRangeAndStepBounded ==
    /\ duty # -1 => duty \in 0..(FadeInStop - 1)
    /\ prevDuty # -1 => Abs(duty - prevDuty) <= FADE_STEP

\* C29 witness: the second round of the loop starts, duty 0 after the 255
\* that ended the fade-out.
C29_Witness ==
    /\ fadeAt = "in"
    /\ dutyIdx = 1
    /\ duty = 0
    /\ prevDuty = FadeOutStart - (PyRangeLen(FadeOutStart, -1, -FADE_STEP) - 1) * FADE_STEP
    /\ prevDuty = FADE_STEP - 1

\* The turn from fade-in to fade-out: 65535 after 65280.
C29_TurnAtTop ==
    /\ fadeAt = "out"
    /\ dutyIdx = 1
    /\ duty = FadeOutStart
    /\ prevDuty = FadeInStop - FADE_STEP

(***************************************************************************)
(* The command parser.                                                     *)
(***************************************************************************)
\* The response a command line is to get: that of its word.
ResponseFor(l) ==
    CASE l.word = LED_ON -> LedOnResponse
      [] l.word = LED_OFF -> LedOffResponse
      [] l.word = STATUS -> StatusResponse
      [] OTHER -> UnknownResponse(l.word)

\* The terminator characters read so far.
TerminatorsRead == Cardinality({i \in DOMAIN consumed : consumed[i] \in Terminators})

\* Everything the peer has sent has been read, and the parser still runs.
AllRead == parserOn /\ peer = <<>> /\ uartRx = <<>>

\* The command lines sent that end in CR LF.
CrLfLines == Cardinality({i \in DOMAIN sentLines : Len(sentLines[i].ending) = 2})

\* process_command answers by the text stripped and in upper case; one
\* response is written per terminator character read, and the buffer is
\* empty right after each response.
ParserPerTerminator ==
    /\ [](/\ \A i \in DOMAIN sentLines :
               LET l == sentLines[i] IN
                   process_command(Append(LineText(l), l.ending[1])) = ResponseFor(l)
          /\ Len(responses) = TerminatorsRead)
    /\ [][ responses' # responses =>
              /\ Len(responses') = Len(responses) + 1
              /\ buffer' = <<>>
         ]_vars

\* C30: process_command returns 'LED turned ON', 'LED turned OFF' or 'System
\* OK' exactly when the buffered text, stripped and upper-cased, is LED_ON,
\* LED_OFF or STATUS, and 'Unknown command: <cmd>' otherwise; one response
\* is written per terminator character received; the buffer is empty right
\* after each response; and each command line of the peer, ended by LF, CR
\* or CR LF, gets exactly one response.
C30_OneResponsePerCommandLine ==
    /\ ParserPerTerminator
    /\ [](AllRead =>
            /\ Len(responses) = Len(sentLines)
            /\ \A i \in DOMAIN sentLines : responses[i] = ResponseFor(sentLines[i]))

\* What the parser does: a line ended by CR LF gets its response and a
\* second one, 'Unknown command: ' with an empty command, for the LF.
C30_CrLfAnsweredTwice ==
    /\ ParserPerTerminator
    /\ [](AllRead => Len(responses) = Len(sentLines) + CrLfLines)
    /\ [](AllRead /\ CrLfLines = 0 =>
            \A i \in DOMAIN sentLines : responses[i] = ResponseFor(sentLines[i]))

\* 'led_on' ended by CR LF has been read and answered twice.
C30_LedOnCrLf ==
    /\ AllRead
    /\ sentLines = <<[word |-> LED_ON, form |-> "lower", ending |-> <<"\r", "\n">>]>>
    /\ responses = <<LedOnResponse, UnknownResponse(<<>>)>>
    /\ buffer = <<>>
============================================================================
